---- MODULE Spec2Model ----
(***************************************************************************)
(* The SQL template compiler of gormcli (internal/gen, RenderSQLTemplate)  *)
(* and the procedure it emits.                                             *)
(*                                                                         *)
(* The model follows src/typed/query.go lines 343-695: the line scanner,   *)
(* the block parser with its explicit stack, the Emit methods of the four  *)
(* node kinds, and then the emitted Go statements, executed one statement  *)
(* per step against a string builder `sb`, the scoped `tmp` builders of    *)
(* the where/set wrappers and the `params` slice.                          *)
(***************************************************************************)
EXTENDS Integers, Sequences, FiniteSets, TLC

(***************************************************************************)
(* Strings.  Go strings are modelled by TLA+ strings; the helpers below    *)
(* are package strings / strconv, computed character by character.         *)
(***************************************************************************)

Ch(s, k) == SubSeq(s, k, k)

From(s, k) == SubSeq(s, k, Len(s))

\* The element of a one-element set.  A local value written
\* The({ e(x) : x \in {v} }) is computed once, however often e uses it.
The(S) == CHOOSE x \in S : TRUE

HasPrefix(s, p) == Len(s) >= Len(p) /\ SubSeq(s, 1, Len(p)) = p

HasSuffix(s, p) == Len(s) >= Len(p) /\ SubSeq(s, Len(s) - Len(p) + 1, Len(s)) = p

\* strings.Index: the 0-based offset of the first occurrence of sub, or -1.
IndexFrom(s, sub, k) ==
    The({ The({ IF hits = {} THEN -1
                ELSE (CHOOSE j \in hits : \A h \in hits : j <= h) - 1
                : hits \in {{ j \in k..(Len(t) - Len(sub) + 1) :
                                SubSeq(t, j, j + Len(sub) - 1) = sub }} })
          : t \in {s} })

Index(s, sub) == IndexFrom(s, sub, 1)

Contains(s, sub) == Index(s, sub) >= 0

\* s[k-1 : k-1+n] when it lies within s, "" otherwise.
Sub(s, k, n) == IF k >= 1 /\ k + n - 1 <= Len(s) THEN SubSeq(s, k, k + n - 1) ELSE ""

\* strings.Count for a non-empty sub: non-overlapping occurrences.
RECURSIVE Count(_, _)
Count(s, sub) ==
    The({ IF k < 0 THEN 0 ELSE 1 + Count(From(s, k + Len(sub) + 1), sub)
          : k \in {Index(s, sub)} })

\* strings.Split(s, sep) for a non-empty sep.
RECURSIVE Split(_, _)
Split(s, sep) ==
    The({ IF k < 0 THEN <<s>>
          ELSE <<SubSeq(s, 1, k)>> \o Split(From(s, k + Len(sep) + 1), sep)
          : k \in {Index(s, sep)} })

\* strings.ReplaceAll for a non-empty old.
RECURSIVE ReplaceAll(_, _, _)
ReplaceAll(s, old, new) ==
    The({ IF k < 0 THEN s
          ELSE SubSeq(s, 1, k) \o new \o ReplaceAll(From(s, k + Len(old) + 1), old, new)
          : k \in {Index(s, old)} })

\* unicode.IsSpace on the characters the templates use.
IsSpace(c) == c = " " \/ c = "\t" \/ c = "\n" \/ c = "\r"

RECURSIVE TrimLeftSpace(_)
TrimLeftSpace(s) ==
    IF Len(s) > 0 /\ IsSpace(Ch(s, 1)) THEN TrimLeftSpace(Tail(s)) ELSE s

RECURSIVE TrimRightSpace(_)
TrimRightSpace(s) ==
    IF Len(s) > 0 /\ IsSpace(Ch(s, Len(s)))
    THEN TrimRightSpace(SubSeq(s, 1, Len(s) - 1)) ELSE s

TrimSpace(s) == The({ TrimRightSpace(TrimLeftSpace(t)) : t \in {s} })

\* strings.TrimRight(s, cutset) for a one-character cutset.
RECURSIVE TrimRight(_, _)
TrimRight(s, cut) ==
    IF Len(s) > 0 /\ Ch(s, Len(s)) = cut
    THEN TrimRight(SubSeq(s, 1, Len(s) - 1), cut) ELSE s

LowerLetters == "abcdefghijklmnopqrstuvwxyz"
UpperLetters == "ABCDEFGHIJKLMNOPQRSTUVWXYZ"
Digits == "0123456789"

ToUpperCh(c) ==
    LET k == Index(LowerLetters, c)
    IN  IF k >= 0 THEN Ch(UpperLetters, k + 1) ELSE c

RECURSIVE ToUpper(_)
ToUpper(s) == IF s = "" THEN "" ELSE ToUpperCh(Ch(s, 1)) \o ToUpper(Tail(s))

\* strings.EqualFold on ASCII text.
EqualFold(a, b) == ToUpper(a) = ToUpper(b)

\* strconv.Itoa for the small non-negative numbers the model meets.
RECURSIVE Itoa(_)
Itoa(n) ==
    IF n < 10 THEN Ch(Digits, n + 1)
    ELSE Itoa(n \div 10) \o Ch(Digits, (n % 10) + 1)

\* fmt's %q verb (strconv.Quote) on printable ASCII, newline and tab.
RECURSIVE QuoteBody(_)
QuoteBody(s) ==
    IF s = "" THEN ""
    ELSE LET c == Ch(s, 1)
             e == IF c = "\"" THEN "\\\""
                  ELSE IF c = "\\" THEN "\\\\"
                  ELSE IF c = "\n" THEN "\\n"
                  ELSE IF c = "\t" THEN "\\t"
                  ELSE c
         IN  e \o QuoteBody(Tail(s))

Quote(s) == "\"" \o QuoteBody(s) \o "\""

\* The value the Go compiler gives an interpreted string literal.
RECURSIVE UnquoteBody(_)
UnquoteBody(s) ==
    IF s = "" THEN ""
    ELSE IF Ch(s, 1) = "\\" /\ Len(s) >= 2
         THEN LET c == Ch(s, 2)
                  d == IF c = "n" THEN "\n" ELSE IF c = "t" THEN "\t" ELSE c
              IN  d \o UnquoteBody(From(s, 3))
         ELSE Ch(s, 1) \o UnquoteBody(Tail(s))

Unquote(lit) == UnquoteBody(SubSeq(lit, 2, Len(lit) - 1))

(***************************************************************************)
(* Placeholder extraction: rePlaceholder and the callback TextNode.Emit    *)
(* hands to ReplaceAllStringFunc.                                          *)
(***************************************************************************)

IdentChars == UpperLetters \o LowerLetters \o Digits \o "_."

\* The character class [A-Za-z0-9_.] of rePlaceholder.
IsIdent(c) == c # "" /\ Index(IdentChars, c) >= 0

\* Length of the longest run of [A-Za-z0-9_.] that starts at position k.
RECURSIVE IdentRun(_, _)
IdentRun(s, k) ==
    IF k <= Len(s) /\ IsIdent(Ch(s, k)) THEN 1 + IdentRun(s, k + 1) ELSE 0

\* Length of the match of `@@table|@@[A-Za-z0-9_.]+|@[A-Za-z0-9_.]+` that
\* starts at position k, 0 when there is none.  Go's regexp takes the first
\* alternative that matches (leftmost-first), each with its greedy run.
rePlaceholder(s, k) ==
    IF Sub(s, k, 7) = "@@table" THEN 7
    ELSE IF Sub(s, k, 2) = "@@" /\ IdentRun(s, k + 2) >= 1
         THEN 2 + IdentRun(s, k + 2)
    ELSE IF Ch(s, k) = "@" /\ IdentRun(s, k + 1) >= 1
         THEN 1 + IdentRun(s, k + 1)
    ELSE 0

\* The bind expression the callback records for a matched placeholder.
BindExpr(ph) ==
    IF ph = "@@table" THEN "clause.CurrentTable"
    ELSE IF HasPrefix(ph, "@@") THEN "gorm.Expr(\"?\", " \o From(ph, 3) \o ")"
    ELSE From(ph, 2)

\* The position of the leftmost match of rePlaceholder at or after
\* position k, 0 when there is none.
NextMatch(s, k) ==
    IF \A j \in k..Len(s) : rePlaceholder(s, j) = 0 THEN 0
    ELSE CHOOSE j \in k..Len(s) :
            rePlaceholder(s, j) > 0 /\ \A h \in k..(j - 1) : rePlaceholder(s, h) = 0

\* rePlaceholder.ReplaceAllStringFunc(str, ...): every match, left to right,
\* becomes "?" and appends its bind expression to params; the text between
\* the matches is copied.
RECURSIVE ReplaceAllStringFunc(_, _)
ReplaceAllStringFunc(s, k) ==
    The({ IF m = 0 THEN [text |-> From(s, k), params |-> <<>>]
          ELSE The({ The({ [text |-> SubSeq(s, k, m - 1) \o "?" \o r.text,
                            params |-> <<BindExpr(SubSeq(s, m, m + n - 1))>> \o r.params]
                           : r \in {ReplaceAllStringFunc(s, m + n)} })
                     : n \in {rePlaceholder(s, m)} })
          : m \in {NextMatch(s, k)} })

escapedToken == "___ESCAPED_AT___"

\* The literal and the bind expressions TextNode.Emit derives from a span.
Extract(txt) ==
    The({ The({ [text   |-> ReplaceAll(ReplaceAll(r.text, escapedToken, "@"), "\"", "\\\""),
                 params |-> r.params]
                : r \in {ReplaceAllStringFunc(str, 1)} })
          : str \in {ReplaceAll(TrimSpace(txt), "\\@", escapedToken)} })

(***************************************************************************)
(* Emitted code.  The Go text the Emit methods print is kept one statement *)
(* per record: op names the statement, indent counts the leading tabs,     *)
(* target is the builder written to, lit is a Go string literal as it      *)
(* stands in the source text, args are the appended bind expressions or    *)
(* the header expression.                                                  *)
(***************************************************************************)

Stmt(op, indent, target, lit, args) ==
    [op |-> op, indent |-> indent, target |-> target, lit |-> lit, args |-> args]

\* TextNode.Emit
TextNodeEmit(txt, indent, target) ==
    IF TrimSpace(txt) = "" THEN <<>>
    ELSE The({ <<Stmt("fprint", indent, target, Quote(e.text), <<>>)>>
               \o (IF Len(e.params) > 0
                   THEN <<Stmt("append", indent, "params", "", e.params)>>
                   ELSE <<>>)
               : e \in {Extract(txt)} })

\* The statements FuncNode.Emit prints after the body, inside `if c != "" {`.
FuncNodeTail(name, indent, target) ==
    IF name = "where"
    THEN << Stmt("fprintkw", indent + 2, target, Quote("WHERE "), <<>>),
            Stmt("ifand",    indent + 2, "", "", <<>>),
            Stmt("cut3",     indent + 3, "", "", <<>>),
            Stmt("elifor",   indent + 2, "", "", <<>>),
            Stmt("cut2",     indent + 3, "", "", <<>>),
            Stmt("close",    indent + 2, "", "", <<>>),
            Stmt("fprintkw", indent + 2, target, Quote("WHERE "), <<>>),
            Stmt("fprintc",  indent + 2, target, "", <<>>) >>
    ELSE IF name = "set"
    THEN << Stmt("ifcomma",  indent + 2, "", "", <<>>),
            Stmt("cutcomma", indent + 3, "", "", <<>>),
            Stmt("close",    indent + 2, "", "", <<>>),
            Stmt("fprintkw", indent + 2, target, Quote("SET "), <<>>),
            Stmt("fprintc",  indent + 2, target, "", <<>>) >>
    ELSE << Stmt("panic", indent + 2, "",
                 "unsupported func " \o Quote(name) \o " in sql tempalte\n", <<>>) >>

(***************************************************************************)
(* The tree.  Nodes live in a heap (a sequence, a node's id is its index)  *)
(* because the parser appends a block to its parent's body when the block  *)
(* opens and keeps filling it through the pointer afterwards.              *)
(***************************************************************************)

\* &TextNode{Text: txt}
TextNode(txt) ==
    [kind |-> "text", str |-> txt, Body |-> <<>>, Branches |-> <<>>, ElseBody |-> <<>>]

\* &FuncNode{Name: name}
FuncNode(name) ==
    [kind |-> "func", str |-> name, Body |-> <<>>, Branches |-> <<>>, ElseBody |-> <<>>]

\* &ForNode{Expr: ex}
ForNode(ex) ==
    [kind |-> "for", str |-> ex, Body |-> <<>>, Branches |-> <<>>, ElseBody |-> <<>>]

\* IfBranch{Cond: cond}
IfBranch(cond) == [Cond |-> cond, Body |-> <<>>]

\* &IfNode{Branches: []IfBranch{{Cond: cond}}}
IfNode(cond) ==
    [kind |-> "if", str |-> "", Body |-> <<>>, Branches |-> <<IfBranch(cond)>>,
     ElseBody |-> <<>>]

\* stackItem{node: n} / stackItem{node: in, ifNode: in, branchIdx: 0}
stackItem(n, isIf) == [node |-> n, ifNode |-> isIf, branchIdx |-> 0, elsePart |-> FALSE]

RECURSIVE Emit(_, _, _, _)
RECURSIVE EmitAll(_, _, _, _)

\* for _, c := range body { b.WriteString(c.Emit(indent, target)) }
EmitAll(heap, body, indent, target) ==
    IF body = <<>> THEN <<>>
    ELSE Emit(heap, Head(body), indent, target) \o EmitAll(heap, Tail(body), indent, target)

\* IfNode.Emit from branch k on.
RECURSIVE EmitBranches(_, _, _, _, _)
EmitBranches(heap, branches, k, indent, target) ==
    IF k > Len(branches) THEN <<>>
    ELSE <<Stmt(IF k = 1 THEN "if" ELSE "elseif", indent, "", "", <<branches[k].Cond>>)>>
         \o EmitAll(heap, branches[k].Body, indent + 1, target)
         \o EmitBranches(heap, branches, k + 1, indent, target)

\* FuncNode.Emit
FuncNodeEmit(heap, n, indent, target) ==
    << Stmt("block", indent, "", "", <<>>),
       Stmt("vartmp", indent + 1, "", "", <<>>) >>
    \o EmitAll(heap, n.Body, indent + 1, "tmp")
    \o << Stmt("cdecl", indent + 1, "", "", <<>>),
          Stmt("ifc", indent + 1, "", "", <<>>) >>
    \o FuncNodeTail(n.str, indent, target)
    \o << Stmt("close", indent + 1, "", "", <<>>),
          Stmt("close", indent, "", "", <<>>) >>

\* A loop whose closing brace is not written.
ForNodeEmit_NoClose(heap, n, indent, target) ==
    <<Stmt("for", indent, "", "", <<n.str>>)>>
    \o EmitAll(heap, n.Body, indent + 1, target)

\* ForNode.Emit
ForNodeEmit(heap, n, indent, target) ==
    <<Stmt("for", indent, "", "", <<n.str>>)>>
    \o EmitAll(heap, n.Body, indent + 1, target)
    \o <<Stmt("close", indent, "", "", <<>>)>>

\* IfNode.Emit
IfNodeEmit(heap, n, indent, target) ==
    EmitBranches(heap, n.Branches, 1, indent, target)
    \o (IF Len(n.ElseBody) > 0
        THEN <<Stmt("else", indent, "", "", <<>>)>>
             \o EmitAll(heap, n.ElseBody, indent + 1, target)
        ELSE <<>>)
    \o <<Stmt("close", indent, "", "", <<>>)>>

\* Node.Emit, dispatched on the node's dynamic type.
Emit(heap, id, indent, target) ==
    LET n == heap[id]
    IN  IF n.kind = "text" THEN TextNodeEmit(n.str, indent, target)
        ELSE IF n.kind = "func" THEN FuncNodeEmit(heap, n, indent, target)
        ELSE IF n.kind = "for" THEN ForNodeEmit(heap, n, indent, target)
        ELSE IfNodeEmit(heap, n, indent, target)

(***************************************************************************)
(* RenderSQLTemplate: the parser state and its closures.                   *)
(***************************************************************************)

VARIABLES
    tmpl,     \* the template string RenderSQLTemplate is called with
    pc,       \* "scan", "eof", "run", "done"; "panic" when Emit panicked
    i,        \* index of the line being scanned (0-based, as in the source)
    rest,     \* the unscanned remainder of that line
    root,     \* []Node: ids of the top-level nodes
    stack,    \* []stackItem
    heap,     \* the nodes allocated so far
    err,      \* the returned error's message, "" for nil
    codes,    \* the code emitted for each root node, "" results included
    ip,       \* index of the next emitted statement to execute
    ctl,      \* run time: the open blocks of the emitted code
    sb,       \* run time: the contents of `sb`
    tmps,     \* run time: the `tmp` builders in scope, innermost last
    cs,       \* run time: the `c` variables in scope, innermost last
    params,   \* run time: the `params` slice
    trace,    \* run time: the text statements executed, the loop counts and
              \* the branch outcomes met, in order
    other     \* the local variables of a second call of RenderSQLTemplate

pvars == <<tmpl, pc, i, rest, root, stack, heap, err, codes>>
rvars == <<ip, ctl, sb, tmps, cs, params, trace>>
vars == <<tmpl, pc, i, rest, root, stack, heap, err, codes,
          ip, ctl, sb, tmps, cs, params, trace, other>>

\* lines := strings.Split(tmpl, "\n")
lines == Split(tmpl, "\n")

\* The three variables the closures of RenderSQLTemplate capture.
PState == [root |-> root, stack |-> stack, heap |-> heap]

\* A getBody that always takes the first branch of a conditional.
getBody_FirstBranch(si) ==
    IF ~si.ifNode THEN [node |-> si.node, part |-> "Body", idx |-> 0]
    ELSE IF si.elsePart THEN [node |-> si.node, part |-> "ElseBody", idx |-> 0]
    ELSE [node |-> si.node, part |-> "Branches", idx |-> 1]

\* Where getBody points: a body slot of a heap node.
getBody(si) ==
    IF ~si.ifNode THEN [node |-> si.node, part |-> "Body", idx |-> 0]
    ELSE IF si.elsePart THEN [node |-> si.node, part |-> "ElseBody", idx |-> 0]
    ELSE [node |-> si.node, part |-> "Branches", idx |-> si.branchIdx + 1]

\* *b = append(*b, id)
AppendBody(h, b, id) ==
    LET n == h[b.node]
    IN  IF b.part = "Body" THEN [h EXCEPT ![b.node].Body = Append(n.Body, id)]
        ELSE IF b.part = "ElseBody"
             THEN [h EXCEPT ![b.node].ElseBody = Append(n.ElseBody, id)]
        ELSE [h EXCEPT ![b.node].Branches[b.idx].Body = Append(n.Branches[b.idx].Body, id)]

\* Allocate node n and attach it to the root or to the active body of the
\* top frame (the shared tail of appendText, pushBlock and handleIfStart).
Attach(P, n, toRoot) ==
    LET id == Len(P.heap) + 1
        h  == Append(P.heap, n)
    IN  IF Len(P.stack) = 0
        THEN [P EXCEPT !.heap = h, !.root = IF toRoot THEN Append(P.root, id) ELSE P.root]
        ELSE [P EXCEPT !.heap = AppendBody(h, getBody(P.stack[Len(P.stack)]), id)]

appendText(P, txt) ==
    IF TrimSpace(txt) = "" THEN P ELSE Attach(P, TextNode(txt), TRUE)

\* A pushBlock that opens the block without appending it to the active body.
pushBlock_Detached(P, n) ==
    LET Q == [P EXCEPT !.heap = Append(P.heap, n)]
    IN  [Q EXCEPT !.stack = Append(P.stack, stackItem(Len(Q.heap), FALSE))]

pushBlock(P, n) ==
    LET Q == Attach(P, n, FALSE)
    IN  [Q EXCEPT !.stack = Append(P.stack, stackItem(Len(Q.heap), FALSE))]

handleIfStart(P, cond) ==
    LET Q == Attach(P, IfNode(cond), FALSE)
    IN  [Q EXCEPT !.stack = Append(P.stack, stackItem(Len(Q.heap), TRUE))]

Ok(P) == [P |-> P, err |-> ""]
Fail(P, msg) == [P |-> P, err |-> msg]

\* handleElseIf without the test `top.elsePart`.
handleElseIf_AfterElse(P, cond) ==
    IF Len(P.stack) = 0 THEN Fail(P, "else if without an open if block")
    ELSE LET t   == Len(P.stack)
             top == P.stack[t]
         IN  IF ~top.ifNode THEN Fail(P, "else if outside if block")
             ELSE LET br == Append(P.heap[top.node].Branches, IfBranch(cond))
                  IN  Ok([P EXCEPT !.heap[top.node].Branches = br,
                                   !.stack[t].branchIdx = Len(br) - 1])

\* A handleElseIf that puts the new branch in front of the others.
handleElseIf_Prepend(P, cond) ==
    IF Len(P.stack) = 0 THEN Fail(P, "else if without an open if block")
    ELSE LET t   == Len(P.stack)
             top == P.stack[t]
         IN  IF ~top.ifNode THEN Fail(P, "else if outside if block")
             ELSE IF top.elsePart THEN Fail(P, "else if after else")
             ELSE LET br == <<IfBranch(cond)>> \o P.heap[top.node].Branches
                  IN  Ok([P EXCEPT !.heap[top.node].Branches = br,
                                   !.stack[t].branchIdx = Len(br) - 1])

handleElseIf(P, cond) ==
    IF Len(P.stack) = 0 THEN Fail(P, "else if without an open if block")
    ELSE LET t   == Len(P.stack)
             top == P.stack[t]
         IN  IF ~top.ifNode THEN Fail(P, "else if outside if block")
             ELSE IF top.elsePart THEN Fail(P, "else if after else")
             ELSE LET br == Append(P.heap[top.node].Branches, IfBranch(cond))
                  IN  Ok([P EXCEPT !.heap[top.node].Branches = br,
                                   !.stack[t].branchIdx = Len(br) - 1])

\* handleElse without the test `top.ifNode == nil`.
handleElse_AnyBlock(P) ==
    IF Len(P.stack) = 0 THEN Fail(P, "else without if")
    ELSE IF P.stack[Len(P.stack)].elsePart THEN Fail(P, "multiple else in same if block")
    ELSE Ok([P EXCEPT !.stack[Len(P.stack)].elsePart = TRUE])

handleElse(P) ==
    IF Len(P.stack) = 0 THEN Fail(P, "else without if")
    ELSE LET t   == Len(P.stack)
             top == P.stack[t]
         IN  IF ~top.ifNode THEN Fail(P, "else outside if block")
             ELSE IF top.elsePart THEN Fail(P, "multiple else in same if block")
             ELSE Ok([P EXCEPT !.stack[t].elsePart = TRUE])

\* handleEnd without the test `len(stack) == 0`.
handleEnd_Lenient(P) ==
    IF Len(P.stack) = 0 THEN Ok(P)
    ELSE LET finished == P.stack[Len(P.stack)]
             st       == SubSeq(P.stack, 1, Len(P.stack) - 1)
         IN  Ok([P EXCEPT !.stack = st,
                          !.root = IF Len(st) = 0 THEN Append(P.root, finished.node)
                                   ELSE P.root])

\* handleEnd that appends the finished node and forgets to pop the frame.
handleEnd_NoPop(P) ==
    IF Len(P.stack) = 0 THEN Fail(P, "unmatched end")
    ELSE Ok([P EXCEPT !.root = IF Len(P.stack) = 1
                               THEN Append(P.root, P.stack[Len(P.stack)].node)
                               ELSE P.root])

\* A handleEnd that closes every open block at once.
handleEnd_PopAll(P) ==
    IF Len(P.stack) = 0 THEN Fail(P, "unmatched end")
    ELSE Ok([P EXCEPT !.stack = <<>>,
                      !.root = Append(P.root, P.stack[Len(P.stack)].node)])

handleEnd(P) ==
    IF Len(P.stack) = 0 THEN Fail(P, "unmatched end")
    ELSE LET finished == P.stack[Len(P.stack)]
             st       == SubSeq(P.stack, 1, Len(P.stack) - 1)
         IN  Ok([P EXCEPT !.stack = st,
                          !.root = IF Len(st) = 0 THEN Append(P.root, finished.node)
                                   ELSE P.root])

\* The switch of handleDirective comparing keywords in any letter case.
DirCase_Fold(dir) ==
    LET u == ToUpper(dir)
    IN  IF u = "WHERE" \/ u = "SET" THEN "func"
        ELSE IF HasPrefix(u, "FOR ") THEN "for"
        ELSE IF HasPrefix(u, "IF ") THEN "if"
        ELSE IF HasPrefix(u, "ELSE IF ") THEN "elseif"
        ELSE IF u = "ELSE" THEN "else"
        ELSE IF u = "END" THEN "end"
        ELSE "unknown"

\* Which case of handleDirective's switch takes dir.
DirCase(dir) ==
    The({ IF d = "where" \/ d = "set" THEN "func"
          ELSE IF HasPrefix(d, "for ") THEN "for"
          ELSE IF HasPrefix(d, "if ") THEN "if"
          ELSE IF HasPrefix(d, "else if ") THEN "elseif"
          ELSE IF d = "else" THEN "else"
          ELSE IF d = "end" THEN "end"
          ELSE "unknown"
          : d \in {dir} })

handleDirective(P, dir, lineNo) ==
    LET k == DirCase(dir)
    IN  IF k = "func" THEN Ok(pushBlock(P, FuncNode(dir)))
        ELSE IF k = "for" THEN Ok(pushBlock(P, ForNode(TrimSpace(From(dir, 4)))))
        ELSE IF k = "if" THEN Ok(handleIfStart(P, TrimSpace(From(dir, 3))))
        ELSE IF k = "elseif" THEN handleElseIf(P, TrimSpace(From(dir, Len("else if ") + 1)))
        ELSE IF k = "else" THEN handleElse(P)
        ELSE IF k = "end" THEN handleEnd(P)
        ELSE Fail(P, "unknown directive: " \o Quote(dir) \o " (line " \o Itoa(lineNo) \o ")")

(***************************************************************************)
(* Inputs.                                                                 *)
(***************************************************************************)

MaxPieces == 4
MaxIter == 3
MaxSpan == 3

\* The spans the generated templates are put together from.
Pieces ==
    { "{{where}}", "{{set}}", "{{for r}}", "{{if c}}", "{{else if d}}", "{{else}}",
      "{{end}}", " a=@x AND ", "b=@@y,", "\n" }

\* Templates of the specification's scenarios, of README.md and of the tests.
ScenarioA == "SELECT * FROM @@table WHERE id=@id"
ScenarioB == "{{if x > 0}} a=@x {{else}} b=@y {{end}}"
ScenarioC == "{{where}}{{for _, v := range list}}{{if v.Ok}} k=@v.Val OR{{end}}{{end}}{{end}}"

\* FilterWithTime of README.md, with the column name the tests use.
FilterWithTime ==
    "SELECT * FROM @@table\n {{where}}\n  {{if !start.IsZero()}}\n   created_at > @start\n"
    \o "  {{end}}\n  {{if !end.IsZero()}}\n   AND created_at < @end\n  {{end}}\n {{end}}"

\* GetByID of the generator's tests: an escaped sigil inside a quoted value.
GetByID == "SELECT * FROM @@table WHERE id=@id AND name = \"\\@name\""

\* FilterWithColumn of the generator's tests.
FilterWithColumn == "SELECT * FROM @@table WHERE @@column=@value"

\* A wrapper holding a loop holding a conditional with every kind of arm.
Nested ==
    "{{where}}{{for r}}{{if c}} a=@x {{else if d}} b=@@y {{else}} c=1 {{end}}{{end}}{{end}}"

Scenarios ==
    { ScenarioA, ScenarioB, ScenarioC, GetByID, FilterWithColumn,
      "{{where}} a=@x and {{end}}",
      "{{where}} a=@x Or  {{end}}",
      "{{set}}n=@n,,{{end}}",
      "{{set}} n=@n, , {{end}}",
      "{{WHERE}}",
      "{{if a\tfor b}}x=@x{{end}}",
      "{{Set}}n=@n,{{end}}",
      "FROM @@tables t WHERE @@table.id=@id",
      "{{where}} kind=brand {{end}}",
      "{{where}} a=@x OR tag=color {{end}}",
      "a=@x {{ if c\n}}",
      FilterWithTime,
      "{{if a}}{{else}}{{if b}}{{else if c}}{{else}}{{else if d}}{{end}}{{end}}",
      "{{where}} a=@x {{End}}",
      "{{where}}\n{{for r}} a=@x {{ if c\n}}{{end}}",
      "{{where}}{{if c}}{{set}}n=@n{{end}}{{end}}{{end}}",
      "{{where}}{{for r}}{{set}}n=@n{{end}}{{end}}{{end}}",
      "{{set}},{{end}}",
      "{{where}} AND {{end}}",
      Nested }

\* Blocks around a body.
Where(b) == "{{where}}" \o b \o "{{end}}"
SetOf(b) == "{{set}}" \o b \o "{{end}}"
If(b) == "{{if c}}" \o b \o "{{end}}"
For(b) == "{{for r}}" \o b \o "{{end}}"

Texts == { " a=@x AND ", "b=@@y," }

\* Wrappers whose body holds text under a branch, a loop or another wrapper.
Shapes ==
    LET Inner == UNION { { If(t), For(t), For(If(t)), Where(t), SetOf(t), Where(If(t)),
                           For(Where(t)) }
                         : t \in Texts }
        Bodies == Inner \cup { b \o t : b \in Inner, t \in Texts }
    IN  UNION { { Where(b), SetOf(b) } : b \in Bodies }

RECURSIVE Join(_)
Join(ps) == IF ps = <<>> THEN "" ELSE Head(ps) \o Join(Tail(ps))

\* What literal spans are put together from: sigils, an escaped sigil, a
\* marker, a quote, identifier characters and a separator.
SpanPieces == { "@", "\\@", "?", "\"", "x", "table", ".", " " }
Spans == { Join(ps) : ps \in UNION { [1..n -> SpanPieces] : n \in 1..MaxSpan } }

Templates ==
    { Join(ps) : ps \in UNION { [1..n -> Pieces] : n \in 0..MaxPieces } }
    \cup Scenarios \cup Shapes \cup Spans

(***************************************************************************)
(* RenderSQLTemplate: the scanning loop, one pass of the inner loop per    *)
(* step.                                                                   *)
(***************************************************************************)

\* The local variables of a call at its start, as a record.
InitCall(t) ==
    [tmpl |-> t, pc |-> "scan", i |-> 0, rest |-> Split(t, "\n")[1],
     root |-> <<>>, stack |-> <<>>, heap |-> <<>>, err |-> "", codes |-> <<>>]

\* A call with a template of ts is about to scan its first line.
InitLocals(ts) ==
    /\ tmpl \in ts
    /\ pc = "scan"
    /\ i = 0
    /\ rest = Split(tmpl, "\n")[1]
    /\ root = <<>>
    /\ stack = <<>>
    /\ heap = <<>>
    /\ err = ""
    /\ codes = <<>>
    /\ ip = 0
    /\ ctl = <<>>
    /\ sb = ""
    /\ tmps = <<>>
    /\ cs = <<>>
    /\ params = <<>>
    /\ trace = <<>>

\* One call; no second call is ever made.
Init == InitLocals(Templates) /\ other = InitCall("")

\* start := strings.Index(rest, "{{")
start == Index(rest, "{{")
\* rest = rest[start+2:]
afterOpen == From(rest, start + 3)
\* end := strings.Index(rest, "}}")
end == Index(afterOpen, "}}")
\* dir := strings.TrimSpace(rest[:end])
dir == TrimSpace(SubSeq(afterOpen, 1, end))
\* A pass that leaves the line where it was after reading a directive.
afterDir_Rescan == rest

\* rest = rest[end+2:]
afterDir == From(afterOpen, end + 3)
\* if start > 0 { appendText(rest[:start]) }
beforeDir == IF start > 0 THEN appendText(PState, SubSeq(rest, 1, start)) ELSE PState

SetPState(P) == root' = P.root /\ stack' = P.stack /\ heap' = P.heap

\* A return that hands back the code of the nodes finished so far.
Return_Partial(msg) ==
    /\ err' = msg
    /\ pc' = "done"
    /\ codes' = [k \in 1..Len(root) |-> Emit(heap, root[k], 0, "sb")]
    /\ UNCHANGED <<i, rest>>

\* return "", err
Return(msg) == err' = msg /\ pc' = "done" /\ UNCHANGED <<i, rest, codes>>

\* No "{{" is left on the line: the rest is text and the line ends.
ScanText ==
    /\ pc = "scan"
    /\ start = -1
    /\ SetPState(appendText(PState, rest))
    /\ i' = i + 1
    /\ IF i + 1 < Len(lines)
       THEN rest' = lines[i + 2] /\ pc' = "scan"
       ELSE rest' = "" /\ pc' = "eof"
    /\ UNCHANGED <<tmpl, err, codes>>
    /\ UNCHANGED rvars
    /\ UNCHANGED other

\* The missing-close error numbered with the 0-based loop index.
MissingClose_ZeroBased ==
    /\ pc = "scan"
    /\ start >= 0
    /\ end = -1
    /\ SetPState(beforeDir)
    /\ Return("line " \o Itoa(i) \o ": missing }}")
    /\ UNCHANGED tmpl
    /\ UNCHANGED rvars
    /\ UNCHANGED other

\* A "{{" with no "}}" after it on the line.
MissingClose ==
    /\ pc = "scan"
    /\ start >= 0
    /\ end = -1
    /\ SetPState(beforeDir)
    /\ Return("line " \o Itoa(i + 1) \o ": missing }}")
    /\ UNCHANGED tmpl
    /\ UNCHANGED rvars
    /\ UNCHANGED other

\* A complete directive: the text before it is appended, then
\* handleDirective runs and its error, if any, is returned with the line.
Directive ==
    /\ pc = "scan"
    /\ start >= 0
    /\ end >= 0
    /\ \E d \in {dir}, P \in {beforeDir} :
         \E r \in {handleDirective(P, d, i + 1)} :
           /\ SetPState(r.P)
           /\ IF r.err = ""
              THEN rest' = afterDir /\ UNCHANGED <<pc, i, err, codes>>
              ELSE Return("line " \o Itoa(i + 1) \o ": " \o r.err)
    /\ UNCHANGED tmpl
    /\ UNCHANGED rvars
    /\ UNCHANGED other

\* {{where}} / {{set}}: pushBlock(&FuncNode{Name: dir})
DirFunc ==
    /\ pc = "scan" /\ start >= 0 /\ end >= 0
    /\ DirCase(dir) = "func"
    /\ Directive

\* {{for expr}}: pushBlock(&ForNode{Expr: ex})
DirFor ==
    /\ pc = "scan" /\ start >= 0 /\ end >= 0
    /\ DirCase(dir) = "for"
    /\ Directive

\* {{if cond}}: handleIfStart
DirIf ==
    /\ pc = "scan" /\ start >= 0 /\ end >= 0
    /\ DirCase(dir) = "if"
    /\ Directive

\* {{else if cond}}: handleElseIf
DirElseIf ==
    /\ pc = "scan" /\ start >= 0 /\ end >= 0
    /\ DirCase(dir) = "elseif"
    /\ Directive

\* {{else}}: handleElse
DirElse ==
    /\ pc = "scan" /\ start >= 0 /\ end >= 0
    /\ DirCase(dir) = "else"
    /\ Directive

\* {{end}}: handleEnd
DirEnd ==
    /\ pc = "scan" /\ start >= 0 /\ end >= 0
    /\ DirCase(dir) = "end"
    /\ Directive

\* Anything else: the default case of handleDirective
DirUnknown ==
    /\ pc = "scan" /\ start >= 0 /\ end >= 0
    /\ DirCase(dir) = "unknown"
    /\ Directive

\* if len(stack) > 0 { return "", errors.New("unclosed block(s) at EOF") }
UnclosedBlocks ==
    /\ pc = "eof"
    /\ Len(stack) > 0
    /\ Return("unclosed block(s) at EOF")
    /\ UNCHANGED <<tmpl, root, stack, heap>>
    /\ UNCHANGED rvars
    /\ UNCHANGED other

\* default: panic("unsupported func " + f.Name) was reached while the code
\* cds was being written: RenderSQLTemplate does not return.
Panics(cds) ==
    \E r \in 1..Len(cds) : \E k \in 1..Len(cds[r]) : cds[r][k].op = "panic"

\* The code of every root node; the emitted procedure then starts with an
\* empty sb and an empty params.
EmitRoot ==
    /\ pc = "eof"
    /\ Len(stack) = 0
    /\ codes' = [k \in 1..Len(root) |-> Emit(heap, root[k], 0, "sb")]
    /\ pc' = IF Panics(codes') THEN "panic" ELSE "run"
    /\ ip' = 1
    /\ UNCHANGED <<tmpl, i, rest, root, stack, heap, err>>
    /\ UNCHANGED <<ctl, sb, tmps, cs, params, trace>>
    /\ UNCHANGED other

(***************************************************************************)
(* The emitted procedure, one Go statement per step.  Conditions and loop  *)
(* headers are opaque host expressions: every outcome is possible.         *)
(***************************************************************************)

RECURSIVE Concat(_)
Concat(ss) == IF ss = <<>> THEN <<>> ELSE Head(ss) \o Concat(Tail(ss))

\* The statements written after the two declarations, in order.
prog == Concat(codes)

\* strings.Join(ss, sep)
RECURSIVE StringsJoin(_, _)
StringsJoin(ss, sep) ==
    IF ss = <<>> THEN ""
    ELSE IF Len(ss) = 1 THEN ss[1]
    ELSE ss[1] \o sep \o StringsJoin(Tail(ss), sep)

\* The Go text of a statement's line, without its indentation and its
\* newline, as the Emit methods print it.
LineOf(st) ==
    CASE st.op = "append"   -> "params = append(params, " \o StringsJoin(st.args, ", ") \o ")"
      [] st.op = "fprint"   -> "fmt.Fprint(&" \o st.target \o ", " \o st.lit \o ", \" \")"
      [] st.op = "for"      -> "for " \o st.args[1] \o " {"
      [] st.op = "if"       -> "if " \o st.args[1] \o " {"
      [] st.op = "elseif"   -> "} else if " \o st.args[1] \o " {"
      [] st.op = "else"     -> "} else {"
      [] st.op = "close"    -> "}"
      [] st.op = "block"    -> "{"
      [] st.op = "vartmp"   -> "var tmp strings.Builder"
      [] st.op = "cdecl"    -> "c := strings.TrimSpace(tmp.String())"
      [] st.op = "ifc"      -> "if c != \"\" {"
      [] st.op = "fprintkw" -> "fmt.Fprint(&" \o st.target \o ", " \o st.lit \o ")"
      [] st.op = "ifand"    -> "if len(c) >= 3 && strings.EqualFold(c[len(c)-3:], \"AND\") {"
      [] st.op = "cut3"     -> "c = strings.TrimSpace(c[:len(c)-3])"
      [] st.op = "elifor"   -> "} else if len(c) >= 2 && strings.EqualFold(c[len(c)-2:], \"OR\") {"
      [] st.op = "cut2"     -> "c = strings.TrimSpace(c[:len(c)-2])"
      [] st.op = "ifcomma"  -> "if strings.HasSuffix(c, \",\") {"
      [] st.op = "cutcomma" -> "c = strings.TrimSpace(strings.TrimRight(c, \",\"))"
      [] st.op = "fprintc"  -> "fmt.Fprint(&" \o st.target \o ", c, \" \")"
      [] OTHER              -> st.op

\* The indentation of a line: n tabs.
RECURSIVE Tabs(_)
Tabs(n) == IF n = 0 THEN "" ELSE "\t" \o Tabs(n - 1)

\* The string n.Emit("", "sb") returns: every line with its tabs and its
\* newline.
RECURSIVE CodeText(_)
CodeText(code) ==
    IF code = <<>> THEN ""
    ELSE Tabs(code[1].indent) \o LineOf(code[1]) \o "\n" \o CodeText(Tail(code))

\* strings.Index(code, "\tfor ") > 0, on the whole text of the node's
\* code: an indented `for` line, or a tab followed by "for " inside a
\* condition or a range expression.
HasTabFor(code) == Index(CodeText(code), "\tfor ") > 0

\* count of one root node: the commas of every line that holds
\* "params = append(params", times baseCount.
RECURSIVE CommaCount(_, _)
CommaCount(code, k) ==
    IF k > Len(code) THEN 0
    ELSE (IF Contains(LineOf(code[k]), "params = append(params")
          THEN Count(LineOf(code[k]), ",") ELSE 0)
         + CommaCount(code, k + 1)

baseCount(code) == IF HasTabFor(code) THEN 4 ELSE 1

RECURSIVE paramsCountOf(_, _)
paramsCountOf(cs_, k) ==
    IF k > Len(cs_) THEN 0
    ELSE CommaCount(cs_[k], 1) * baseCount(cs_[k]) + paramsCountOf(cs_, k + 1)

paramsCount == paramsCountOf(codes, 1)

\* The two declarations every returned code starts with; the second one
\* carries the capacity.
Header ==
    << Stmt("varsb", 0, "sb", "", <<>>),
       Stmt("mkparams", 0, "params", "", <<Itoa(paramsCount)>>) >>

\* sb.String() of `return sb.String(), nil`.
result == Header \o prog

Running == pc = "run" /\ ip <= Len(prog)
cur == prog[ip]

Opens(op) == op \in {"block", "ifc", "ifand", "ifcomma", "for", "if"}
Mids(op) == op \in {"elseif", "elifor", "else"}

\* The statement that ends the arm opened at a brace of depth d before j:
\* the matching `}`, `} else if ... {` or `} else {`.
RECURSIVE ScanArm(_, _, _)
ScanArm(code, j, d) ==
    IF j > Len(code) THEN j
    ELSE LET op == code[j].op
         IN  IF op = "close" THEN (IF d = 0 THEN j ELSE ScanArm(code, j + 1, d - 1))
             ELSE IF Mids(op) THEN (IF d = 0 THEN j ELSE ScanArm(code, j + 1, d))
             ELSE IF Opens(op) THEN ScanArm(code, j + 1, d + 1)
             ELSE ScanArm(code, j + 1, d)

NextArm(code, k) == ScanArm(code, k + 1, 0)

\* The `}` that closes the whole if / else-if / else chain of arm k.
RECURSIVE EndOfChain(_, _)
EndOfChain(code, k) ==
    LET j == NextArm(code, k)
    IN  IF j > Len(code) \/ code[j].op = "close" THEN j ELSE EndOfChain(code, j)

\* What a wrapper's scope found when it was entered (sb, the tmp builders,
\* the lengths of params and trace) and the text its body left in tmp.  It
\* is history, kept to state what the wrapper contributed; no statement of
\* the emitted code reads it.
Mark(b, ts, np, nt, body) == [sb |-> b, tmps |-> ts, np |-> np, nt |-> nt, body |-> body]
NoMark == Mark("", <<>>, 0, 0, "")

Frame(kind, head, n, iter, taken, mark) ==
    [kind |-> kind, head |-> head, n |-> n, iter |-> iter, taken |-> taken, mark |-> mark]

Top(q) == q[Len(q)]
Pop(q) == SubSeq(q, 1, Len(q) - 1)

\* The iteration each enclosing loop is in, outermost first.
RECURSIVE At(_)
At(q) ==
    IF q = <<>> THEN <<>>
    ELSE At(Pop(q)) \o (IF Top(q).kind = "for" THEN <<Top(q).iter>> ELSE <<>>)

Event(ev, val) == [ev |-> ev, ip |-> ip, at |-> At(ctl), val |-> val]

\* Writing to the builder a name denotes where the statement stands: `sb`,
\* or the innermost `tmp` declared in an enclosing block.
Write(target, text) ==
    IF target = "sb"
    THEN sb' = sb \o text /\ UNCHANGED tmps
    ELSE tmps' = [tmps EXCEPT ![Len(tmps)] = @ \o text] /\ UNCHANGED sb

\* if cond { : enter the arm or go to the next one.  The frame keeps, as
\* history, what had been written when the chain began.
Branch(b) ==
    /\ ctl' = Append(ctl, Frame("if", ip, 0, 0, b,
                                Mark(sb, tmps, Len(params), Len(trace), "")))
    /\ ip' = IF b THEN ip + 1 ELSE NextArm(prog, ip)

\* } else if cond { : reached from a finished arm, or from a failed test.
Rebranch(b) ==
    IF Top(ctl).taken
    THEN ip' = EndOfChain(prog, ip) /\ UNCHANGED ctl
    ELSE /\ ctl' = [ctl EXCEPT ![Len(ctl)].taken = b]
         /\ ip' = IF b THEN ip + 1 ELSE NextArm(prog, ip)

\* A text statement that writes the literal alone.
ExecFprint_NoSpace ==
    /\ Running /\ cur.op = "fprint"
    /\ Write(cur.target, Unquote(cur.lit))
    /\ trace' = Append(trace, Event("text", 0))
    /\ ip' = ip + 1
    /\ UNCHANGED <<ctl, cs, params>>
    /\ UNCHANGED pvars
    /\ UNCHANGED other

\* fmt.Fprint(&target, "literal", " ")
ExecFprint ==
    /\ Running /\ cur.op = "fprint"
    /\ Write(cur.target, Unquote(cur.lit) \o " ")
    /\ trace' = Append(trace, Event("text", 0))
    /\ ip' = ip + 1
    /\ UNCHANGED <<ctl, cs, params>>
    /\ UNCHANGED pvars
    /\ UNCHANGED other

\* params = append(params, e1, ..., en)
ExecAppend ==
    /\ Running /\ cur.op = "append"
    /\ params' = params \o [k \in 1..Len(cur.args) |-> [expr |-> cur.args[k], at |-> At(ctl)]]
    /\ ip' = ip + 1
    /\ UNCHANGED <<ctl, sb, tmps, cs, trace>>
    /\ UNCHANGED pvars
    /\ UNCHANGED other

\* {
ExecBlock ==
    /\ Running /\ cur.op = "block"
    /\ ctl' = Append(ctl, Frame("block", ip, 0, 0, TRUE,
                              Mark(sb, tmps, Len(params), Len(trace), "")))
    /\ ip' = ip + 1
    /\ UNCHANGED <<sb, tmps, cs, params, trace>>
    /\ UNCHANGED pvars
    /\ UNCHANGED other

\* var tmp strings.Builder
ExecVarTmp ==
    /\ Running /\ cur.op = "vartmp"
    /\ tmps' = Append(tmps, "")
    /\ ip' = ip + 1
    /\ UNCHANGED <<ctl, sb, cs, params, trace>>
    /\ UNCHANGED pvars
    /\ UNCHANGED other

\* c := strings.TrimSpace(tmp.String())
ExecCDecl ==
    /\ Running /\ cur.op = "cdecl"
    /\ cs' = Append(cs, TrimSpace(Top(tmps)))
    /\ ctl' = [ctl EXCEPT ![Len(ctl)].mark.body = Top(tmps)]
    /\ ip' = ip + 1
    /\ UNCHANGED <<sb, tmps, params, trace>>
    /\ UNCHANGED pvars
    /\ UNCHANGED other

\* The wrapper's tail without its `if c != ""` test.
ExecIfC_Always ==
    /\ Running /\ cur.op = "ifc"
    /\ Branch(TRUE)
    /\ UNCHANGED <<sb, tmps, cs, params, trace>>
    /\ UNCHANGED pvars
    /\ UNCHANGED other

\* if c != "" {
ExecIfC ==
    /\ Running /\ cur.op = "ifc"
    /\ Branch(Top(cs) # "")
    /\ UNCHANGED <<sb, tmps, cs, params, trace>>
    /\ UNCHANGED pvars
    /\ UNCHANGED other

\* fmt.Fprint(&target, "WHERE ") / fmt.Fprint(&target, "SET ")
ExecFprintKw ==
    /\ Running /\ cur.op = "fprintkw"
    /\ Write(cur.target, Unquote(cur.lit))
    /\ ip' = ip + 1
    /\ UNCHANGED <<ctl, cs, params, trace>>
    /\ UNCHANGED pvars
    /\ UNCHANGED other

\* if len(c) >= 3 && strings.EqualFold(c[len(c)-3:], "AND") {
ExecIfAnd ==
    /\ Running /\ cur.op = "ifand"
    /\ LET c == Top(cs)
       IN  Branch(Len(c) >= 3 /\ EqualFold(From(c, Len(c) - 2), "AND"))
    /\ UNCHANGED <<sb, tmps, cs, params, trace>>
    /\ UNCHANGED pvars
    /\ UNCHANGED other

\* c = strings.TrimSpace(c[:len(c)-3])
ExecCut3 ==
    /\ Running /\ cur.op = "cut3"
    /\ cs' = [cs EXCEPT ![Len(cs)] = TrimSpace(SubSeq(@, 1, Len(@) - 3))]
    /\ ip' = ip + 1
    /\ UNCHANGED <<ctl, sb, tmps, params, trace>>
    /\ UNCHANGED pvars
    /\ UNCHANGED other

\* } else if len(c) >= 2 && strings.EqualFold(c[len(c)-2:], "OR") {
ExecElifOr ==
    /\ Running /\ cur.op = "elifor"
    /\ LET c == Top(cs)
       IN  Rebranch(Len(c) >= 2 /\ EqualFold(From(c, Len(c) - 1), "OR"))
    /\ UNCHANGED <<sb, tmps, cs, params, trace>>
    /\ UNCHANGED pvars
    /\ UNCHANGED other

\* c = strings.TrimSpace(c[:len(c)-2])
ExecCut2 ==
    /\ Running /\ cur.op = "cut2"
    /\ cs' = [cs EXCEPT ![Len(cs)] = TrimSpace(SubSeq(@, 1, Len(@) - 2))]
    /\ ip' = ip + 1
    /\ UNCHANGED <<ctl, sb, tmps, params, trace>>
    /\ UNCHANGED pvars
    /\ UNCHANGED other

\* if strings.HasSuffix(c, ",") {
ExecIfComma ==
    /\ Running /\ cur.op = "ifcomma"
    /\ Branch(HasSuffix(Top(cs), ","))
    /\ UNCHANGED <<sb, tmps, cs, params, trace>>
    /\ UNCHANGED pvars
    /\ UNCHANGED other

\* c = strings.TrimSpace(strings.TrimRight(c, ","))
ExecCutComma ==
    /\ Running /\ cur.op = "cutcomma"
    /\ cs' = [cs EXCEPT ![Len(cs)] = TrimSpace(TrimRight(@, ","))]
    /\ ip' = ip + 1
    /\ UNCHANGED <<ctl, sb, tmps, params, trace>>
    /\ UNCHANGED pvars
    /\ UNCHANGED other

\* fmt.Fprint(&target, c, " ")
ExecFprintC ==
    /\ Running /\ cur.op = "fprintc"
    /\ Write(cur.target, Top(cs) \o " ")
    /\ ip' = ip + 1
    /\ UNCHANGED <<ctl, cs, params, trace>>
    /\ UNCHANGED pvars
    /\ UNCHANGED other

\* for expr { : the loop runs its body n times, for any n up to MaxIter.
\* The frame keeps, as history, what had been written when the loop began.
ExecFor ==
    /\ Running /\ cur.op = "for"
    /\ \E n \in 0..MaxIter :
          /\ trace' = Append(trace, Event("for", n))
          /\ IF n = 0
             THEN ip' = NextArm(prog, ip) + 1 /\ UNCHANGED ctl
             ELSE ip' = ip + 1
                  /\ ctl' = Append(ctl, Frame("for", ip, n, 1, TRUE,
                                              Mark(sb, tmps, Len(params), Len(trace), "")))
    /\ UNCHANGED <<sb, tmps, cs, params>>
    /\ UNCHANGED pvars
    /\ UNCHANGED other

\* if cond {
ExecIf ==
    /\ Running /\ cur.op = "if"
    /\ \E b \in BOOLEAN :
          /\ Branch(b)
          /\ trace' = Append(trace, Event("cond", IF b THEN 1 ELSE 0))
    /\ UNCHANGED <<sb, tmps, cs, params>>
    /\ UNCHANGED pvars
    /\ UNCHANGED other

\* } else if cond {
ExecElseIf ==
    /\ Running /\ cur.op = "elseif"
    /\ IF Top(ctl).taken
       THEN Rebranch(TRUE) /\ UNCHANGED trace
       ELSE \E b \in BOOLEAN :
               /\ Rebranch(b)
               /\ trace' = Append(trace, Event("cond", IF b THEN 1 ELSE 0))
    /\ UNCHANGED <<sb, tmps, cs, params>>
    /\ UNCHANGED pvars
    /\ UNCHANGED other

\* } else {
ExecElse ==
    /\ Running /\ cur.op = "else"
    /\ Rebranch(TRUE)
    /\ UNCHANGED <<sb, tmps, cs, params, trace>>
    /\ UNCHANGED pvars
    /\ UNCHANGED other

\* } : the end of a loop body, of an if chain or of a wrapper's scope.
ExecClose ==
    /\ Running /\ cur.op = "close"
    /\ LET f == Top(ctl)
       IN  IF f.kind = "for" /\ f.iter < f.n
           THEN /\ ctl' = [ctl EXCEPT ![Len(ctl)].iter = f.iter + 1]
                /\ ip' = f.head + 1
                /\ UNCHANGED <<tmps, cs>>
           ELSE /\ ctl' = Pop(ctl)
                /\ ip' = ip + 1
                /\ IF f.kind = "block"
                   THEN tmps' = Pop(tmps) /\ cs' = Pop(cs)
                   ELSE UNCHANGED <<tmps, cs>>
    /\ UNCHANGED <<sb, params, trace>>
    /\ UNCHANGED pvars
    /\ UNCHANGED other

\* The last statement has run: sb.String() and params go to the query.
RunDone ==
    /\ pc = "run" /\ ip > Len(prog)
    /\ pc' = "done"
    /\ UNCHANGED <<tmpl, i, rest, root, stack, heap, err, codes>>
    /\ UNCHANGED rvars
    /\ UNCHANGED other

Next ==
    \/ ScanText \/ MissingClose
    \/ DirFunc \/ DirFor \/ DirIf \/ DirElseIf \/ DirElse \/ DirEnd \/ DirUnknown
    \/ UnclosedBlocks \/ EmitRoot
    \/ ExecFprint \/ ExecAppend \/ ExecBlock \/ ExecVarTmp \/ ExecCDecl \/ ExecIfC
    \/ ExecFprintKw \/ ExecIfAnd \/ ExecCut3 \/ ExecElifOr \/ ExecCut2
    \/ ExecIfComma \/ ExecCutComma \/ ExecFprintC
    \/ ExecFor \/ ExecIf \/ ExecElseIf \/ ExecElse \/ ExecClose \/ RunDone

Spec == Init /\ [][Next]_vars

(***************************************************************************)
(* Two calls at once.  root, stack and everything reached from them are    *)
(* variables declared inside RenderSQLTemplate, so each call has its own;  *)
(* rePlaceholder is the only package-level value the calls have in common  *)
(* and it is only read.  The first call is the one of the variables        *)
(* above; the second keeps its local variables in the record `other` and   *)
(* takes the same steps, written as a function of its locals.              *)
(***************************************************************************)

\* One pass of the scanning loop, the test after it, or the emission, on
\* the local variables S of a call.
ParserStep(S) ==
    LET ls == Split(S.tmpl, "\n")
        P  == [root |-> S.root, stack |-> S.stack, heap |-> S.heap]
        st == Index(S.rest, "{{")
        ao == From(S.rest, st + 3)
        en == Index(ao, "}}")
        bd == IF st > 0 THEN appendText(P, SubSeq(S.rest, 1, st)) ELSE P
        With(Q) == [S EXCEPT !.root = Q.root, !.stack = Q.stack, !.heap = Q.heap]
        ln == "line " \o Itoa(S.i + 1) \o ": "
    IN  IF S.pc = "scan"
        THEN IF st = -1
             THEN [With(appendText(P, S.rest)) EXCEPT
                     !.i = S.i + 1,
                     !.rest = IF S.i + 1 < Len(ls) THEN ls[S.i + 2] ELSE "",
                     !.pc = IF S.i + 1 < Len(ls) THEN "scan" ELSE "eof"]
             ELSE IF en = -1
             THEN [With(bd) EXCEPT !.err = ln \o "missing }}", !.pc = "done"]
             ELSE LET r == handleDirective(bd, TrimSpace(SubSeq(ao, 1, en)), S.i + 1)
                  IN  IF r.err = ""
                      THEN [With(r.P) EXCEPT !.rest = From(ao, en + 3)]
                      ELSE [With(r.P) EXCEPT !.err = ln \o r.err, !.pc = "done"]
        ELSE IF S.pc = "eof"
        THEN IF Len(S.stack) > 0
             THEN [S EXCEPT !.err = "unclosed block(s) at EOF", !.pc = "done"]
             ELSE LET cds == [k \in 1..Len(S.root) |-> Emit(S.heap, S.root[k], 0, "sb")]
                  IN  [S EXCEPT !.codes = cds,
                                !.pc = IF Panics(cds) THEN "panic" ELSE "run"]
        ELSE S

\* The call has returned: an error, or the code of its root nodes.
Returned(S) == S.pc \in {"run", "done"}

\* What a call returns.
ReturnOf(S) == [err |-> S.err, codes |-> S.codes]

\* A second call whose stack is the stack of the first call.
OtherStep_SharedStack ==
    /\ ~Returned(other)
    /\ LET S == ParserStep([other EXCEPT !.stack = stack])
       IN  other' = S /\ stack' = S.stack
    /\ UNCHANGED <<tmpl, pc, i, rest, root, heap, err, codes>>
    /\ UNCHANGED rvars

\* The second call takes its next step, on its own local variables.
OtherStep ==
    /\ ~Returned(other)
    /\ other' = ParserStep(other)
    /\ UNCHANGED pvars
    /\ UNCHANGED rvars

\* Templates for two calls at once: one of each kind of block, every kind
\* of directive, and one of each way to fail.
ParTemplates ==
    { " a=@x ",
      "{{where}} a=@x AND {{end}}",
      "{{set}}n=@n,{{end}}",
      "{{for r}}{{if c}} a=@x {{else if d}} b=@@y {{else}} c=1 {{end}}{{end}}",
      "a=@x {{bogus}}",
      "a=@x {{ if c",
      "{{if c}}\n a=@x",
      "{{end}}",
      "{{for r}}{{else}}" }

InitPar ==
    /\ InitLocals(ParTemplates)
    /\ other \in { InitCall(t) : t \in ParTemplates }

\* Either call takes its next step: the calls interleave in every way,
\* one after the other included.
NextPar ==
    \/ ScanText \/ MissingClose
    \/ DirFunc \/ DirFor \/ DirIf \/ DirElseIf \/ DirElse \/ DirEnd \/ DirUnknown
    \/ UnclosedBlocks \/ EmitRoot
    \/ OtherStep

SpecPar == InitPar /\ [][NextPar]_vars

(***************************************************************************)
(* RenderSQLTemplate alone, up to its return.  The function is sequential  *)
(* code on one goroutine: whenever a next pass of the loop, the test after *)
(* it or the emission can run, it does run.                                *)
(***************************************************************************)

NextScan ==
    \/ ScanText \/ MissingClose
    \/ DirFunc \/ DirFor \/ DirIf \/ DirElseIf \/ DirElse \/ DirEnd \/ DirUnknown
    \/ UnclosedBlocks \/ EmitRoot

\* Templates for the scan alone: every sequence of a few pieces, and the
\* scenarios with their longer lines and their ways to fail.
MaxScanPieces == 2
ScanTemplates ==
    { Join(ps) : ps \in UNION { [1..n -> Pieces] : n \in 0..MaxScanPieces } }
    \cup Scenarios \cup ParTemplates

InitScan == InitLocals(ScanTemplates) /\ other = InitCall("")

SpecScan == InitScan /\ [][NextScan]_vars /\ WF_vars(NextScan)

(***************************************************************************)
(* Properties.                                                             *)
(***************************************************************************)

\* The emitted procedure has run to its end.
Finished == pc = "done" /\ err = ""

\* The events of one kind met so far, in order.
Events(ev) == SelectSeq(trace, LAMBDA e : e.ev = ev)
Outcomes(val) == SelectSeq(trace, LAMBDA e : e.ev = "cond" /\ e.val = val)

\* The value a bind expression has under the arguments env; an expression
\* env does not name stands for itself.
Value(p, env) == IF p.expr \in DOMAIN env THEN env[p.expr] ELSE p.expr
Values(env) == [k \in 1..Len(params) |-> Value(params[k], env)]

\* The closing brace of a wrapper's scope is about to run: everything the
\* wrapper emitted has executed.
AtWrapperEnd == Running /\ cur.op = "close" /\ Top(ctl).kind = "block"
WrapperKw == Unquote(prog[ip - 3].lit)
WrapperTarget == prog[ip - 2].target
\* The body text as `c := strings.TrimSpace(tmp.String())` read it.
WrapperBody == TrimSpace(Top(ctl).mark.body)
\* What the wrapper's own statements appended to the builder they name.
WrapperWrote ==
    IF WrapperTarget = "sb" THEN From(sb, Len(Top(ctl).mark.sb) + 1)
    ELSE From(Top(tmps), Len(Top(ctl).mark.body) + 1)
NoTextSince(nt) == \A k \in (nt + 1)..Len(trace) : trace[k].ev # "text"
BodyHasText(head) == \E j \in head..ip : prog[j].op = "fprint"

\* C1 (Scenario C): over a 3-element list with exactly 2 entries Ok, the
\* procedure yields `WHERE k=? OR k=?` and the Val of the two matching
\* entries, in list order.
C1_ScenarioC ==
    (/\ Finished /\ tmpl = ScenarioC
     /\ Len(Events("for")) = 1 /\ Events("for")[1].val = 3
     /\ Len(Outcomes(1)) = 2)
    => /\ TrimSpace(sb) = "WHERE k=? OR k=?"
       /\ params = [k \in 1..2 |-> [expr |-> "v.Val", at |-> Outcomes(1)[k].at]]

\* C2 (wrapper emptiness): when no text statement of a where/set body has
\* executed, the wrapper leaves sb, every enclosing tmp and params as they
\* were when its scope was entered.
C2_WrapperEmptiness ==
    (AtWrapperEnd /\ NoTextSince(Top(ctl).mark.nt))
    => /\ sb = Top(ctl).mark.sb
       /\ Pop(tmps) = Top(ctl).mark.tmps
       /\ Len(params) = Top(ctl).mark.np

\* C2 witness: a wrapper whose body holds a text statement ends with none
\* of them executed.
C2_Witness ==
    /\ AtWrapperEnd
    /\ NoTextSince(Top(ctl).mark.nt)
    /\ BodyHasText(Top(ctl).head)

\* The body ends in the token w: w in any letter case, alone or after
\* whitespace.
EndsInToken(c, w) ==
    /\ Len(c) >= Len(w)
    /\ EqualFold(From(c, Len(c) - Len(w) + 1), w)
    /\ (Len(c) = Len(w) \/ IsSpace(Ch(c, Len(c) - Len(w))))
WithoutToken(c, w) == TrimSpace(SubSeq(c, 1, Len(c) - Len(w)))

\* C3 (boundary trimming, where): a top-level where body ending in AND / OR
\* contributes `WHERE ` once, then the body once, without that token.
C3_WhereTrailingConjunction ==
    \A w \in {"AND", "OR"} :
        (/\ AtWrapperEnd /\ WrapperKw = "WHERE " /\ WrapperTarget = "sb"
         /\ EndsInToken(WrapperBody, w))
        => TrimSpace(WrapperWrote) = TrimSpace("WHERE " \o WithoutToken(WrapperBody, w))

\* What the wrapper has contributed to the builder the text around it goes
\* to: sb for a wrapper at the top level, the tmp of the enclosing wrapper
\* for a wrapper inside another one.
WrapperGave ==
    IF Top(ctl).mark.tmps = <<>> THEN From(sb, Len(Top(ctl).mark.sb) + 1)
    ELSE From(tmps[Len(tmps) - 1], Len(Top(Top(ctl).mark.tmps)) + 1)

\* C4 (boundary trimming, set): a set body ending in a comma contributes
\* `SET ` once, followed by the body with exactly one trailing comma
\* removed, however many commas the body ends with.
C4_SetOneCommaRemoved ==
    (AtWrapperEnd /\ WrapperKw = "SET " /\ HasSuffix(WrapperBody, ","))
    => /\ TrimSpace(WrapperGave)
            = TrimSpace("SET " \o TrimSpace(SubSeq(WrapperBody, 1, Len(WrapperBody) - 1)))
       /\ Count(WrapperGave, "SET ") = 1

\* The text nodes below the nodes ids, depth first, in source order.
RECURSIVE TextIds(_, _)
TextIds(h, ids) ==
    IF ids = <<>> THEN <<>>
    ELSE LET n == h[Head(ids)]
             RECURSIVE OfBranches(_)
             OfBranches(k) ==
                 IF k > Len(n.Branches) THEN <<>>
                 ELSE TextIds(h, n.Branches[k].Body) \o OfBranches(k + 1)
         IN  (IF n.kind = "text" THEN <<Head(ids)>>
              ELSE TextIds(h, n.Body) \o OfBranches(1) \o TextIds(h, n.ElseBody))
             \o TextIds(h, Tail(ids))

\* The text node the text statement at index k of prog was emitted for.
NodeOfStmt(k) ==
    TextIds(heap, root)[Cardinality({j \in 1..k : prog[j].op = "fprint"})]

\* The binds of the executed spans, span after span, each span's
\* placeholders left to right.
RECURSIVE ExecutedBinds(_)
ExecutedBinds(evs) ==
    IF evs = <<>> THEN <<>>
    ELSE LET e  == Head(evs)
             bs == Extract(heap[NodeOfStmt(e.ip)].str).params
         IN  [k \in 1..Len(bs) |-> [expr |-> bs[k], at |-> e.at]]
             \o ExecutedBinds(Tail(evs))

\* C5 (parameter order): params holds the binds of the executed spans in
\* source order, so the SQL text has one `?` per parameter, the i-th bound
\* to the i-th.
C5_ParameterOrder ==
    Finished
    => /\ params = ExecutedBinds(Events("text"))
       /\ Count(sb, "?") = Len(params)

\* C6 (Scenario A): with id=7 the text is exactly
\* `SELECT * FROM ? WHERE id=?` and the parameters are [CurrentTable, 7].
C6_ScenarioA ==
    (Finished /\ tmpl = ScenarioA)
    => /\ sb = "SELECT * FROM ? WHERE id=?"
       /\ Values([id |-> "7"]) = <<"clause.CurrentTable", "7">>

\* C7 (Scenario B): x=5 gives ` a=? ` with [5]; x=0, y=9 gives ` b=? `
\* with [9]; the literal's surrounding spaces are kept.
C7_ScenarioB ==
    (Finished /\ tmpl = ScenarioB)
    => /\ Len(Outcomes(1)) = 1
          => sb = " a=? " /\ Values([x |-> "5", y |-> "9"]) = <<"5">>
       /\ Len(Outcomes(0)) = 1
          => sb = " b=? " /\ Values([x |-> "0", y |-> "9"]) = <<"9">>

\* A complete directive of case k is the next thing the scanner reads.
Reading(k) == pc = "scan" /\ start >= 0 /\ end >= 0 /\ DirCase(dir) = k

\* C8: {{else}} / {{else if c}} read while the innermost open block is not
\* a conditional (no block open, or a where, set or for on top) make the
\* compilation fail, with no code returned.
C8_ElseNeedsOpenIf ==
    [][ ((Reading("else") \/ Reading("elseif"))
          /\ (Len(stack) = 0 \/ ~Top(stack).ifNode))
        => (pc' = "done" /\ err' # "" /\ codes' = <<>>) ]_vars

\* C8 witness: compilation failed on an {{else}} read inside a where, set
\* or for block that is itself nested in an open if.
C8_Witness ==
    /\ pc = "done"
    /\ HasSuffix(err, ": else outside if block")
    /\ Len(stack) >= 2
    /\ stack[1].ifNode
    /\ ~Top(stack).ifNode

\* C9: {{end}} read while no block is open fails with the unmatched-end
\* error of that line; the stack depth is never negative.
C9_UnmatchedEnd ==
    [][ /\ (Reading("end") /\ Len(stack) = 0)
           => (pc' = "done" /\ err' = "line " \o Itoa(i + 1) \o ": unmatched end")
        /\ Len(stack') >= 0 ]_vars

\* C9 witness: compilation failed on an {{end}} on the second line, after
\* a block that had been opened and closed.
C9_Witness ==
    /\ pc = "done"
    /\ err = "line 2: unmatched end"
    /\ Len(root) = 1 /\ heap[root[1]].kind = "func"
    /\ stack = <<>>

\* The directives of a line, as the scanner delimits them.
RECURSIVE DirectivesOf(_)
DirectivesOf(line) ==
    LET a == Index(line, "{{")
        r == From(line, a + 3)
        b == Index(r, "}}")
    IN  IF a < 0 \/ b < 0 THEN <<>>
        ELSE <<TrimSpace(SubSeq(r, 1, b))>> \o DirectivesOf(From(r, b + 3))

\* How many directives of the template fall under the cases ks.
RECURSIVE CountDirectives(_, _)
CountDirectives(ls, ks) ==
    IF ls = <<>> THEN 0
    ELSE Len(SelectSeq(DirectivesOf(Head(ls)), LAMBDA d : DirCase(d) \in ks))
         + CountDirectives(Tail(ls), ks)

Opened == CountDirectives(lines, {"func", "for", "if"})
Ended == CountDirectives(lines, {"end"})
UnclosedError == "unclosed block(s) at EOF"

\* C10: the unclosed-block error is returned exactly when the end of the
\* template is reached without an earlier error and more blocks were
\* opened than ended; at the end of input the stack holds the difference.
C10_UnclosedBlock ==
    /\ pc = "eof" => Len(stack) = Opened - Ended
    /\ pc = "done" => (err = UnclosedError <=> (i = Len(lines) /\ Opened > Ended))
    /\ (pc = "run" \/ Finished) => Opened = Ended

\* C10 witness: the unclosed-block error with two blocks still open and
\* one block closed before.
C10_Witness ==
    /\ pc = "done"
    /\ err = UnclosedError
    /\ Len(stack) = 2
    /\ Ended = 1

\* C11: inside one conditional, {{else}} after {{else}} and {{else if c}}
\* after {{else}} fail; a conditional that has seen no {{else}} yet, a
\* later or nested one included, accepts the directive: {{else}} marks its
\* frame, {{else if c}} gives its node a new branch and moves the frame to
\* it.
C11_ElsePerConditional ==
    [][ ((Reading("else") \/ Reading("elseif"))
          /\ Len(stack) > 0 /\ Top(stack).ifNode)
        => IF Top(stack).elsePart
           THEN /\ pc' = "done" /\ codes' = <<>>
                /\ err' = "line " \o Itoa(i + 1) \o ": "
                          \o (IF Reading("else") THEN "multiple else in same if block"
                              ELSE "else if after else")
           ELSE /\ pc' = "scan" /\ err' = ""
                /\ Len(stack') = Len(stack)
                /\ SubSeq(stack', 1, Len(stack) - 1) = SubSeq(stack, 1, Len(stack) - 1)
                /\ Top(stack').node = Top(stack).node
                /\ Top(stack').elsePart = Reading("else")
                /\ Reading("elseif")
                   => /\ Top(stack').branchIdx = Top(stack).branchIdx + 1
                      /\ Len(heap'[Top(stack).node].Branches) = Top(stack').branchIdx + 1 ]_vars

\* C11 witness: the conditional nested in an else body took its own
\* {{else if}} and {{else}}, then failed on an {{else if}} after its else.
C11_Witness ==
    /\ pc = "done"
    /\ err = "line 1: else if after else"
    /\ Len(stack) = 2
    /\ stack[1].ifNode /\ stack[1].elsePart
    /\ stack[2].ifNode /\ stack[2].elsePart /\ stack[2].branchIdx = 1
    /\ heap[stack[1].node].ElseBody = <<stack[2].node>>

\* The directive contents the compiler knows, spelled as the claim does.
Known(d) ==
    \/ d \in {"where", "set", "else", "end"}
    \/ \E kw \in {"for ", "if ", "else if "} : HasPrefix(d, kw)

\* C12: a directive fails with the unknown-directive error exactly when
\* its trimmed content is not a known keyword in lower case; the failing
\* step leaves the stack alone and the tree as the text before the
\* directive left it.
C12_UnknownDirective ==
    [][ (pc = "scan" /\ start >= 0 /\ end >= 0)
        => /\ (pc' = "done"
               /\ HasPrefix(err', "line " \o Itoa(i + 1) \o ": unknown directive: "))
              <=> ~Known(dir)
           /\ ~Known(dir)
              => /\ err' = "line " \o Itoa(i + 1) \o ": unknown directive: \""
                           \o dir \o "\" (line " \o Itoa(i + 1) \o ")"
                 /\ stack' = stack
                 /\ heap' = beforeDir.heap
                 /\ root' = beforeDir.root
                 /\ codes' = <<>> ]_vars

\* C12 witness: {{End}} read inside an open where block whose body holds
\* a text node is rejected, the frame and the two nodes still in place.
C12_Witness ==
    /\ pc = "done"
    /\ err = "line 1: unknown directive: \"End\" (line 1)"
    /\ Len(stack) = 1 /\ ~stack[1].ifNode
    /\ Len(heap) = 2 /\ heap[1].Body = <<2>>

\* The line holds a "{{" with no "}}" anywhere after it.
UnclosedOpen(line) ==
    \E k \in 1..Len(line) :
        Sub(line, k, 2) = "{{" /\ Index(From(line, k + 2), "}}") < 0

\* C13: when the scanner finds "{{" with no "}}" left on the line, the
\* compilation fails with `line N: missing }}`, N the line's 1-based
\* number, whatever the following lines hold, and what the earlier
\* directives built is still on the stack; the scanner never moves past a
\* line that holds such a "{{", and every error raised on a line carries
\* that line's number.
C13_MissingClose ==
    [][ /\ (pc = "scan" /\ start >= 0 /\ end = -1)
           => /\ pc' = "done" /\ codes' = <<>>
              /\ err' = "line " \o Itoa(i + 1) \o ": missing }}"
              /\ UnclosedOpen(lines[i + 1])
              /\ stack' = stack
              /\ heap' = beforeDir.heap
        /\ i' # i => ~UnclosedOpen(lines[i + 1])
        /\ (pc = "scan" /\ pc' = "done")
           => HasPrefix(err', "line " \o Itoa(i + 1) \o ": ") ]_vars

\* C13 witness: line 2 opens a directive that only line 3 closes; the
\* failure names line 2, with the where block of line 1 and the for block
\* and the text of line 2 already in place.
C13_Witness ==
    /\ pc = "done"
    /\ err = "line 2: missing }}"
    /\ Len(lines) = 3 /\ Contains(lines[3], "}}")
    /\ Len(stack) = 2
    /\ heap[stack[1].node].str = "where"
    /\ heap[stack[2].node].kind = "for"
    /\ Len(heap[stack[2].node].Body) = 1

\* C14: every error RenderSQLTemplate returns carries the 1-based number
\* of a line of the template.
C14_ErrorsCarryLine ==
    (pc = "done" /\ err # "")
    => \E n \in 1..Len(lines) : Contains(err, "line " \o Itoa(n))

\* C15: the compilation ends either with an error and no code, nothing
\* of what earlier lines built being emitted or run, or with no error and
\* non-empty code that covers every root node; no code exists before the
\* whole template is parsed.
C15_AllOrNothing ==
    /\ pc \in {"scan", "eof"} => (codes = <<>> /\ err = "")
    /\ (pc = "done" /\ err # "")
       => (codes = <<>> /\ ip = 0 /\ sb = "" /\ params = <<>> /\ trace = <<>>)
    /\ (pc = "run" \/ Finished)
       => /\ err = "" /\ result # <<>>
          /\ stack = <<>>
          /\ Len(codes) = Len(root)
          /\ \A k \in 1..Len(root) :
                 /\ codes[k] # <<>>
                 /\ heap[root[k]].kind = "text" <=> codes[k][1].op = "fprint"

\* C15 witness: an error on the second line, after the first line put a
\* node into the tree, returns no code.
C15_Witness ==
    /\ pc = "done"
    /\ err # ""
    /\ i = 1
    /\ TrimSpace(lines[1]) # "" /\ ~Contains(lines[1], "{{")
    /\ Len(root) >= 1
    /\ codes = <<>>

\* C16: a wrapper that ends inside another wrapper with a non-empty body
\* has appended its keyword and text to the enclosing wrapper's buffer.
C16_NestedWrapperReaches ==
    (AtWrapperEnd /\ Len(tmps) >= 2 /\ WrapperBody # "")
    => LET outer  == tmps[Len(tmps) - 1]
           before == Top(Top(ctl).mark.tmps)
       IN  /\ HasPrefix(outer, before)
           /\ Contains(From(outer, Len(before) + 1), WrapperKw)

\* What follows the keyword in what a wrapper wrote, a repeated keyword
\* skipped as well.
RECURSIVE AfterKeyword(_, _)
AfterKeyword(w, kw) ==
    IF HasPrefix(w, kw) THEN AfterKeyword(From(w, Len(kw) + 1), kw) ELSE w

\* C17: a wrapper contributes nothing, or its keyword followed by text
\* that is not blank.
C17_NoBareKeyword ==
    AtWrapperEnd
    => \/ WrapperWrote = ""
       \/ /\ HasPrefix(WrapperWrote, WrapperKw)
          /\ TrimSpace(AfterKeyword(WrapperWrote, WrapperKw)) # ""

\* The text begins with the token w: w in any letter case, alone or
\* followed by whitespace.
BeginsWithToken(c, w) ==
    /\ Len(c) >= Len(w)
    /\ EqualFold(SubSeq(c, 1, Len(w)), w)
    /\ (Len(c) = Len(w) \/ IsSpace(Ch(c, Len(w) + 1)))

\* C18: when a where body's text begins with AND / OR, what the wrapper
\* writes after its keyword does not begin with that conjunction;
\* FilterWithTime with a zero start and a non-zero end has no `WHERE AND`.
C18_WhereLeadingConjunction ==
    /\ \A w \in {"AND", "OR"} :
           (/\ AtWrapperEnd /\ WrapperKw = "WHERE "
            /\ BeginsWithToken(WrapperBody, w))
           => ~BeginsWithToken(TrimSpace(AfterKeyword(WrapperWrote, "WHERE ")), w)
    /\ (/\ Finished /\ tmpl = FilterWithTime
        /\ Len(Events("cond")) = 2
        /\ Events("cond")[1].val = 0 /\ Events("cond")[2].val = 1)
       => /\ ~Contains(sb, "WHERE AND")
          /\ Contains(sb, "WHERE created_at < ?")

\* The literal a text statement prints and the binds appended after it.
LiteralOf(k) == Unquote(prog[k].lit)
BindsOf(k) ==
    IF k < Len(prog) /\ prog[k + 1].op = "append" THEN prog[k + 1].args ELSE <<>>
TextStmts == { k \in 1..Len(prog) : prog[k].op = "fprint" }

\* C19: the literal emitted for a span holds as many `?` as the span has
\* bind expressions.
C19_MarkersMatchBinds ==
    pc = "run" => \A k \in TextStmts : Count(LiteralOf(k), "?") = Len(BindsOf(k))

\* Extraction applied to an emitted literal gives the same literal and no
\* bind expression.
Idempotent(k) == Extract(LiteralOf(k)) = [text |-> LiteralOf(k), params |-> <<>>]

\* C20: extraction is idempotent: applied to the literal an extraction
\* produced, whatever span it came from, it returns that literal and no
\* bind expression.
C20_ExtractionIdempotent ==
    pc = "run" => \A k \in TextStmts : Idempotent(k)

(***************************************************************************)
(* Escaped sigils and quoting.                                             *)
(***************************************************************************)

\* What the escape rule asks of a span, read left to right: `\@` stands for
\* a literal `@`, a placeholder becomes `?` with its bind, every other
\* character is copied.
RECURSIVE EscapeRule(_, _)
EscapeRule(s, k) ==
    LET hits == { j \in k..Len(s) :
                    HasPrefix(From(s, j), "\\@") \/ rePlaceholder(s, j) > 0 }
    IN  IF hits = {} THEN [text |-> From(s, k), params |-> <<>>]
        ELSE LET m == CHOOSE j \in hits : \A h \in hits : j <= h
                 n == rePlaceholder(s, m)
             IN  IF HasPrefix(From(s, m), "\\@")
                 THEN LET r == EscapeRule(s, m + 2)
                      IN  [text |-> SubSeq(s, k, m - 1) \o "@" \o r.text,
                           params |-> r.params]
                 ELSE LET r == EscapeRule(s, m + n)
                      IN  [text |-> SubSeq(s, k, m - 1) \o "?" \o r.text,
                           params |-> <<BindExpr(SubSeq(s, m, m + n - 1))>> \o r.params]

\* C21: in a span without quote characters every `\@` comes out as a
\* literal `@` with no marker and no bind, and every unescaped placeholder
\* is replaced by `?` and bound, left to right.
C21_EscapedSigil ==
    pc = "run"
    => \A k \in TextStmts :
         LET span == TrimSpace(heap[NodeOfStmt(k)].str)
         IN  ~Contains(span, "\"")
             => /\ LiteralOf(k) = EscapeRule(span, 1).text
                /\ BindsOf(k) = EscapeRule(span, 1).params

\* C22: the emitted Go string literal escapes each quote of the span once,
\* so the string it denotes at run time is the span itself, quotes
\* unchanged and no backslash added (spans without a sigil, where nothing
\* else is rewritten).
C22_QuotesEscapedOnce ==
    pc = "run"
    => \A k \in TextStmts :
         LET span == TrimSpace(heap[NodeOfStmt(k)].str)
         IN  ~Contains(span, "@")
             => /\ LiteralOf(k) = span
                /\ prog[k].lit = Quote(span)

(***************************************************************************)
(* The declared capacity.                                                  *)
(***************************************************************************)

\* The nodes below the nodes ids, themselves included, depth first.
RECURSIVE NodeIds(_, _)
NodeIds(h, ids) ==
    IF ids = <<>> THEN <<>>
    ELSE LET n == h[Head(ids)]
             RECURSIVE OfBranches(_)
             OfBranches(k) ==
                 IF k > Len(n.Branches) THEN <<>>
                 ELSE NodeIds(h, n.Branches[k].Body) \o OfBranches(k + 1)
         IN  <<Head(ids)>> \o NodeIds(h, n.Body) \o OfBranches(1)
             \o NodeIds(h, n.ElseBody) \o NodeIds(h, Tail(ids))

\* The number of placeholders TextNode.Emit binds in the spans below node id.
PlaceholdersOf(id) ==
    LET ts == TextIds(heap, <<id>>)
        RECURSIVE BindsFrom(_)
        BindsFrom(k) == IF k > Len(ts) THEN 0
                        ELSE Len(Extract(heap[ts[k]].str).params) + BindsFrom(k + 1)
    IN  BindsFrom(1)

\* Node id is a for-loop or holds one at any depth.
HoldsFor(id) ==
    LET ns == NodeIds(heap, <<id>>)
    IN  \E k \in 1..Len(ns) : heap[ns[k]].kind = "for"

\* C24: the capacity declared in `params := make([]any, 0, N)` is the
\* number of placeholders of the template, those of every top-level node
\* that holds a for-loop at any depth (a top-level for-loop included)
\* counted four times.
C24_Capacity ==
    pc = "run"
    => LET RECURSIVE Sum(_)
           Sum(k) == IF k > Len(root) THEN 0
                     ELSE PlaceholdersOf(root[k]) * (IF HoldsFor(root[k]) THEN 4 ELSE 1)
                          + Sum(k + 1)
       IN  Header[2].args = <<Itoa(Sum(1))>>

(***************************************************************************)
(* Shape of the emitted code.                                              *)
(***************************************************************************)

\* Reading the statements from index k on with the braces open so far
\* (innermost last; "if" while a conditional can still take an arm, "else"
\* once its else arm began, "blk" for a loop or bare block): every `}`
\* closes an open brace, every `} else if` and `} else {` continues the
\* innermost open brace, which is a conditional with no else arm yet, and
\* no brace is open at the end.
RECURSIVE Balanced(_, _, _)
Balanced(code, k, open) ==
    IF k > Len(code) THEN open = <<>>
    ELSE LET op == code[k].op
             n  == Len(open)
         IN  CASE op \in {"block", "for"} -> Balanced(code, k + 1, Append(open, "blk"))
               [] op \in {"if", "ifc", "ifand", "ifcomma"} ->
                      Balanced(code, k + 1, Append(open, "if"))
               [] op \in {"elseif", "elifor"} ->
                      n > 0 /\ open[n] = "if" /\ Balanced(code, k + 1, open)
               [] op = "else" ->
                      n > 0 /\ open[n] = "if"
                      /\ Balanced(code, k + 1, [open EXCEPT ![n] = "else"])
               [] op = "close" -> n > 0 /\ Balanced(code, k + 1, SubSeq(open, 1, n - 1))
               [] OTHER -> Balanced(code, k + 1, open)

\* C25: the code of every root node, and so the whole emitted code, is
\* block-balanced: each opened block is closed exactly once, properly
\* nested, and each `} else if` / `} else {` sits directly inside its
\* conditional.
C25_BlockBalanced ==
    pc = "run"
    => /\ \A k \in 1..Len(codes) : Balanced(codes[k], 1, <<>>)
       /\ Balanced(result, 1, <<>>)

\* C25 witness: the code of a wrapper holding a loop holding a conditional
\* with an else-if arm and an else arm has been emitted.
C25_Witness ==
    /\ pc = "run" /\ tmpl = Nested
    /\ \E a, b, c, d \in 1..Len(prog) :
         /\ a < b /\ b < c /\ c < d
         /\ prog[a].op = "for" /\ prog[b].op = "if"
         /\ prog[c].op = "elseif" /\ prog[d].op = "else"
    /\ Balanced(prog, 1, <<>>)

(***************************************************************************)
(* Shape of the tree.  Nodes are numbered in the order the scanner reads   *)
(* the span or the opening directive they are built for, so a body whose   *)
(* ids increase holds its children in source order.                        *)
(***************************************************************************)

\* The bodies of a node: its loop or wrapper body, the body of each of its
\* branches, its else body.
Slots(h, id) ==
    { [node |-> id, part |-> "Body", idx |-> 0],
      [node |-> id, part |-> "ElseBody", idx |-> 0] }
    \cup { [node |-> id, part |-> "Branches", idx |-> k] : k \in 1..Len(h[id].Branches) }

SlotBody(h, s) ==
    IF s.part = "Body" THEN h[s.node].Body
    ELSE IF s.part = "ElseBody" THEN h[s.node].ElseBody
    ELSE h[s.node].Branches[s.idx].Body

\* The bodies that hold node id.
Holders(h, id) ==
    { s \in UNION { Slots(h, n) : n \in 1..Len(h) } :
        \E k \in 1..Len(SlotBody(h, s)) : SlotBody(h, s)[k] = id }

\* The active body of the innermost open block: the body of a loop or
\* wrapper, the most recently added branch of a conditional, or its else
\* body once {{else}} has been read.
ActiveSlot(h, st) ==
    LET top == st[Len(st)]
        n   == h[top.node]
    IN  IF n.kind # "if" THEN [node |-> top.node, part |-> "Body", idx |-> 0]
        ELSE IF top.elsePart THEN [node |-> top.node, part |-> "ElseBody", idx |-> 0]
        ELSE [node |-> top.node, part |-> "Branches", idx |-> Len(n.Branches)]

Increasing(q) == \A a, b \in 1..Len(q) : a < b => q[a] < q[b]

\* Every node occurs once in the tree below root, and root and every body
\* hold their children in source order.
WellFormedTree ==
    LET ns == NodeIds(heap, root)
    IN  /\ Len(ns) = Len(heap)
        /\ { ns[k] : k \in 1..Len(ns) } = 1..Len(heap)
        /\ Increasing(root)
        /\ \A n \in 1..Len(heap) : \A s \in Slots(heap, n) : Increasing(SlotBody(heap, s))

\* C26: a block node is put, when its opening directive is read, at the
\* end of the body then active and into no other body; a block opened
\* while none is open is put at the end of root when its {{end}} is read;
\* after a successful parse every node occurs exactly once in the tree,
\* children in source order.
C26_BlocksPlacedOnce ==
    [][ /\ ((Reading("func") \/ Reading("for") \/ Reading("if")) /\ err' = "")
           => LET id == Len(heap')
              IN  /\ heap'[id].kind = DirCase(dir)
                  /\ root' = beforeDir.root
                  /\ IF stack = <<>> THEN Holders(heap', id) = {}
                     ELSE /\ Holders(heap', id) = {ActiveSlot(heap, stack)}
                          /\ SlotBody(heap', ActiveSlot(heap, stack))
                               = Append(SlotBody(beforeDir.heap, ActiveSlot(heap, stack)), id)
        /\ (Reading("end") /\ Len(stack) = 1)
           => root' = Append(root, stack[1].node)
        /\ (pc' = "run") => WellFormedTree' ]_vars

\* C26 witness: a parse succeeded whose tree has a conditional inside a
\* loop inside a wrapper, the wrapper being the only root node.
C26_Witness ==
    /\ pc = "run" /\ tmpl = Nested
    /\ Len(root) = 1 /\ heap[root[1]].kind = "func"
    /\ \E f, c \in 1..Len(heap) :
         /\ heap[f].kind = "for" /\ heap[c].kind = "if"
         /\ heap[root[1]].Body = <<f>> /\ heap[f].Body = <<c>>
    /\ WellFormedTree

\* The literal span the scanner is about to read: the rest of the line when
\* no directive is left on it, else what stands before the next directive.
Span == IF start < 0 THEN rest ELSE SubSeq(rest, 1, start)

\* C27: a non-blank literal span becomes one Text node holding the span,
\* appended to root when no block is open and otherwise to the active body
\* of the innermost open block, and held by no other body; a blank span
\* adds no Text node.
C27_TextPlacement ==
    [][ pc = "scan"
        => LET id == Len(heap) + 1
           IN  IF TrimSpace(Span) = ""
               THEN \A n \in id..Len(heap') : heap'[n].kind # "text"
               ELSE /\ Len(heap') >= id
                    /\ heap'[id] = TextNode(Span)
                    /\ \A n \in (id + 1)..Len(heap') : heap'[n].kind # "text"
                    /\ IF stack = <<>>
                       THEN /\ root' = Append(root, id)
                            /\ Holders(heap', id) = {}
                       ELSE /\ \A k \in 1..Len(root') : root'[k] # id
                            /\ Holders(heap', id) = {ActiveSlot(heap, stack)}
                            /\ LET old == SlotBody(heap, ActiveSlot(heap, stack))
                                   new == SlotBody(heap', ActiveSlot(heap, stack))
                               IN  /\ Len(new) > Len(old)
                                   /\ SubSeq(new, 1, Len(old) + 1) = Append(old, id) ]_vars

\* C27 witness: spans were read in the first branch, in an else-if branch
\* and in the else body of a conditional nested in a loop and a wrapper,
\* and each sits in the body that was active when it was read.
C27_Witness ==
    /\ pc = "run" /\ tmpl = Nested
    /\ \E c, t1, t2, t3 \in 1..Len(heap) :
         /\ heap[c].kind = "if"
         /\ heap[c].Branches[1].Body = <<t1>> /\ heap[t1].str = " a=@x "
         /\ heap[c].Branches[2].Body = <<t2>> /\ heap[t2].str = " b=@@y "
         /\ heap[c].ElseBody = <<t3>> /\ heap[t3].str = " c=1 "

\* The conditions of the branches of node id, first branch first.
Conds(h, id) == [k \in 1..Len(h[id].Branches) |-> h[id].Branches[k].Cond]

\* What follows the keyword kw in a directive, spaces trimmed.
Operand(d, kw) == TrimSpace(From(d, Len(kw) + 1))

\* C28: a conditional node is created by {{if c}} with the single branch c
\* and an empty else body; an accepted {{else if d}} appends the branch d
\* to the innermost open conditional behind the branches it has; nothing
\* else changes the conditions of a node, so a node always has at least
\* one branch, in source order; and the else body of a node grows only
\* while the node is the innermost open block and its {{else}} has been
\* read, which only an accepted {{else}} brings about.
C28_BranchOrder ==
    [][ /\ (Reading("if") /\ err' = "")
           => /\ Conds(heap', Len(heap')) = <<Operand(dir, "if")>>
              /\ heap'[Len(heap')].Branches[1].Body = <<>>
              /\ heap'[Len(heap')].ElseBody = <<>>
        /\ \A n \in 1..Len(heap) :
             heap[n].kind = "if"
             => /\ Len(heap') >= n /\ heap'[n].kind = "if"
                /\ Len(Conds(heap, n)) >= 1
                /\ IF Reading("elseif") /\ err' = "" /\ Top(stack).node = n
                   THEN Conds(heap', n) = Append(Conds(heap, n), Operand(dir, "else if"))
                   ELSE Conds(heap', n) = Conds(heap, n)
                /\ heap'[n].ElseBody # heap[n].ElseBody
                   => /\ stack # <<>> /\ Top(stack).node = n /\ Top(stack).elsePart
        /\ \A t \in 1..Len(stack) :
             (Len(stack') >= t /\ stack'[t].elsePart /\ ~stack[t].elsePart)
             => /\ Reading("else") /\ t = Len(stack) /\ stack[t].ifNode
                /\ stack'[t].node = stack[t].node ]_vars

\* C28 witness: a parse succeeded with a conditional whose branches hold
\* the conditions of its {{if}} and its {{else if}}, in that order, and
\* whose else body was filled after its {{else}}.
C28_Witness ==
    /\ pc = "run"
    /\ \E n \in 1..Len(heap) :
         /\ heap[n].kind = "if"
         /\ Conds(heap, n) = <<"c", "d">>
         /\ heap[n].ElseBody # <<>>
         /\ heap[n].Branches[2].Body # <<>>

\* All frames of a stack but the innermost.
Lower(st) == SubSeq(st, 1, Len(st) - 1)

\* C29: the stack of open blocks grows by exactly one frame, above the
\* frames it has, on an accepted where, set, for or if; loses exactly its
\* innermost frame on an accepted {{end}}; keeps its depth and its lower
\* frames on an accepted {{else}} or {{else if}}, which only change the
\* innermost frame; and is left alone by a literal span.
C29_StackDiscipline ==
    [][ /\ ((Reading("func") \/ Reading("for") \/ Reading("if")) /\ err' = "")
           => /\ Len(stack') = Len(stack) + 1
              /\ Lower(stack') = stack
              /\ Top(stack').node = Len(heap')
        /\ (Reading("end") /\ err' = "")
           => /\ Len(stack) >= 1
              /\ stack' = Lower(stack)
        /\ ((Reading("else") \/ Reading("elseif")) /\ err' = "")
           => /\ Len(stack') = Len(stack)
              /\ Lower(stack') = Lower(stack)
              /\ Top(stack').node = Top(stack).node
        /\ (pc = "scan" /\ (start < 0 \/ end < 0))
           => stack' = stack ]_vars

\* C29 witness: while a wrapper and a loop inside it are open, a
\* conditional that was opened inside the loop has been closed again.
C29_Witness ==
    /\ pc = "scan"
    /\ Len(stack) = 2
    /\ heap[stack[1].node].kind = "func" /\ heap[stack[2].node].kind = "for"
    /\ \E n \in 1..Len(heap) :
         /\ heap[n].kind = "if"
         /\ heap[stack[2].node].Body = <<n>>
         /\ heap[n].ElseBody # <<>>

(***************************************************************************)
(* Loops at run time.                                                      *)
(***************************************************************************)

\* The closing brace of a loop is about to run for the last time.
AtLoopEnd ==
    Running /\ cur.op = "close" /\ Top(ctl).kind = "for" /\ Top(ctl).iter = Top(ctl).n

\* The statements of the body of the loop that is about to end.
LoopBody == (Top(ctl).head + 1)..(ip - 1)

\* The number of elements the host's range gave the loop when it began.
LoopCount == trace[Top(ctl).mark.nt + 1].val

\* What has been appended since the loop began to the builder the text
\* around the loop goes to (the tmp of the enclosing wrapper, sb when there
\* is none), and to params.
LoopWrote ==
    LET m == Top(ctl).mark
    IN  IF m.tmps = <<>> THEN From(sb, Len(m.sb) + 1)
        ELSE From(Top(tmps), Len(Top(m.tmps)) + 1)
LoopBound ==
    LET m == Top(ctl).mark
    IN  [k \in 1..(Len(params) - m.np) |-> params[m.np + k].expr]

\* The text and the binds of the text statements k of a list, in order.
RECURSIVE TextOf(_)
TextOf(ks) ==
    IF ks = <<>> THEN "" ELSE LiteralOf(Head(ks)) \o " " \o TextOf(Tail(ks))
RECURSIVE AllBindsOf(_)
AllBindsOf(ks) ==
    IF ks = <<>> THEN <<>> ELSE BindsOf(Head(ks)) \o AllBindsOf(Tail(ks))

\* The text statements executed since the loop began, in order.
LoopTexts ==
    LET evs == SelectSeq(SubSeq(trace, Top(ctl).mark.nt + 1, Len(trace)),
                         LAMBDA e : e.ev = "text")
    IN  [k \in 1..Len(evs) |-> evs[k].ip]
LoopIters ==
    LET evs == SelectSeq(SubSeq(trace, Top(ctl).mark.nt + 1, Len(trace)),
                         LAMBDA e : e.ev = "text")
    IN  [k \in 1..Len(evs) |-> evs[k].at[Len(At(ctl))]]

\* The text statements of the body, in the order they are written.
BodyTexts ==
    LET RECURSIVE From_(_)
        From_(k) == IF k >= ip THEN <<>>
                    ELSE (IF prog[k].op = "fprint" THEN <<k>> ELSE <<>>) \o From_(k + 1)
    IN  From_(Top(ctl).head + 1)

RECURSIVE RepeatStr(_, _)
RepeatStr(x, n) == IF n = 0 THEN "" ELSE x \o RepeatStr(x, n - 1)
RECURSIVE RepeatSeq(_, _)
RepeatSeq(x, n) == IF n = 0 THEN <<>> ELSE x \o RepeatSeq(x, n - 1)

\* The closing brace that matches the opening line at index k.
MatchClose(code, k) ==
    CHOOSE e \in (k + 1)..Len(code) :
        /\ code[e].op = "close" /\ code[e].indent = code[k].indent
        /\ \A j \in (k + 1)..(e - 1) :
             ~(code[j].op = "close" /\ code[j].indent = code[k].indent)

\* The `?` markers of a text.
Markers(s) == Count(s, "?")

\* C30: when a loop over n elements ends, the builder the text around the
\* loop goes to and params have grown by what the executed text statements
\* of the body wrote and bound, iteration 1 first and iteration n last,
\* and nothing else has been written to: every bind of an executed text
\* statement is in params, in order, with its marker in that builder; for
\* a body without a wrapper the builder has grown by exactly the text of
\* the executed statements, and for a body of text alone that is n times
\* the text and n times the binds of the body.  A loop over no element
\* runs no statement of its body and writes nothing.
C30_LoopRepeatsBody ==
    [][ /\ AtLoopEnd'
           => /\ LoopBound' = AllBindsOf(LoopTexts)'
              /\ Markers(LoopWrote)' = Markers(TextOf(LoopTexts))'
              /\ (\A k \in LoopBody' : prog'[k].op # "block")
                 => LoopWrote' = TextOf(LoopTexts)'
              /\ \A a, b \in 1..Len(LoopIters') :
                   a <= b => /\ LoopIters'[a] <= LoopIters'[b]
                             /\ LoopIters'[a] \in 1..LoopCount'
              /\ IF Top(ctl').mark.tmps = <<>> THEN tmps' = <<>>
                 ELSE sb' = Top(ctl').mark.sb /\ Pop(tmps') = Pop(Top(ctl').mark.tmps)
              /\ (\A k \in LoopBody' : prog'[k].op \in {"fprint", "append"})
                 => /\ LoopWrote' = RepeatStr(TextOf(BodyTexts), LoopCount)'
                    /\ LoopBound' = RepeatSeq(AllBindsOf(BodyTexts), LoopCount)'
        /\ (Running /\ cur.op = "for" /\ trace'[Len(trace')].val = 0)
           => /\ sb' = sb /\ tmps' = tmps /\ params' = params /\ ctl' = ctl
              /\ ip' = MatchClose(prog, ip) + 1 ]_vars

(***************************************************************************)
(* Calls at the same time.                                                 *)
(***************************************************************************)

\* The local variables of the first call, as a record.
Locals ==
    [tmpl |-> tmpl, pc |-> pc, i |-> i, rest |-> rest, root |-> root,
     stack |-> stack, heap |-> heap, err |-> err, codes |-> codes]

\* What a call with template t returns when no other call is made: the
\* steps of the call taken one after the other.
RECURSIVE Run(_)
Run(S) == IF Returned(S) THEN S ELSE Run(ParserStep(S))
Alone(t) == ReturnOf(Run(InitCall(t)))

\* C23: of two calls whose steps interleave in any way, each returns what
\* it returns when it is the only call, whether or not the other one
\* fails; a call that has returned is not changed by the steps of the
\* other.
C23_CallsIndependent ==
    [][ /\ Returned(Locals') => ReturnOf(Locals') = Alone(tmpl')
        /\ Returned(other') => ReturnOf(other') = Alone(other'.tmpl)
        /\ Returned(other) => other' = other
        /\ Returned(Locals) => Locals' = Locals ]_vars

\* C23 witness: two calls with different templates have both returned, the
\* first the error of its unknown directive and no code, the second the
\* code of a tree of five nodes or more.
C23_Witness ==
    /\ Returned(Locals) /\ Returned(other)
    /\ err # "" /\ codes = <<>>
    /\ other.err = "" /\ other.codes # <<>>
    /\ Len(other.heap) >= 5
    /\ tmpl = "a=@x {{bogus}}"

(***************************************************************************)
(* Conditionals at run time.                                               *)
(***************************************************************************)

\* The closing brace of an if / else-if / else chain of the template is
\* about to run.
AtChainEnd ==
    Running /\ cur.op = "close" /\ Top(ctl).kind = "if" /\ prog[Top(ctl).head].op = "if"

\* The arms of that chain, in source order: the lines `if`, `} else if`,
\* `} else {` at the indentation of its first line.
ChainArms ==
    LET h == Top(ctl).head
        RECURSIVE ArmsFrom(_)
        ArmsFrom(k) ==
            IF k >= ip THEN <<>>
            ELSE (IF prog[k].indent = prog[h].indent THEN <<k>> ELSE <<>>) \o ArmsFrom(k + 1)
    IN  ArmsFrom(h)

\* The outcomes of the conditions of the chain evaluated in this run of it,
\* in the order they were evaluated.
ChainConds ==
    SelectSeq(SubSeq(trace, Top(ctl).mark.nt + 1, Len(trace)),
              LAMBDA e : /\ e.ev = "cond" /\ e.at = At(ctl)
                         /\ \E a \in 1..Len(ChainArms) : ChainArms[a] = e.ip)

\* The arm whose body ran: the arm of the condition that held, the else arm
\* when every condition failed and there is one, 0 when no body ran.
ChosenArm ==
    LET m == Len(ChainConds)
        n == Len(ChainArms)
    IN  IF ChainConds[m].val = 1 THEN m
        ELSE IF prog[ChainArms[n]].op = "else" THEN n
        ELSE 0

\* The statements of the a-th arm.
ArmBody(a) ==
    (ChainArms[a] + 1)..((IF a < Len(ChainArms) THEN ChainArms[a + 1] ELSE ip) - 1)

\* C31: when a chain ends, its conditions were tried in source order up to
\* the first that held; every text statement executed lies in the body of
\* that arm, or of the else arm when none held, and when there is no such
\* arm nothing was written or bound; every bind of a statement executed is
\* in params, in order, with its marker in the builder the text around the
\* chain goes to; for a chain without a wrapper that builder has grown by
\* exactly the text of the statements executed, and for an arm of text
\* alone that is the whole body, in source order.
C31_OneBranchFires ==
    AtChainEnd
    => LET m == Len(ChainConds)
           n == Len(ChainArms)
       IN  /\ m >= 1 /\ m <= n
           /\ \A k \in 1..m : /\ ChainConds[k].ip = ChainArms[k]
                              /\ prog[ChainArms[k]].op \in {"if", "elseif"}
                              /\ k < m => ChainConds[k].val = 0
           /\ ChainConds[m].val = 0
              => \A k \in (m + 1)..n : prog[ChainArms[k]].op = "else"
           /\ \A k \in 1..Len(LoopTexts) :
                ChosenArm # 0 /\ LoopTexts[k] \in ArmBody(ChosenArm)
           /\ ChosenArm = 0 => LoopWrote = "" /\ LoopBound = <<>>
           /\ LoopBound = AllBindsOf(LoopTexts)
           /\ Markers(LoopWrote) = Markers(TextOf(LoopTexts))
           /\ (\A k \in Top(ctl).head..ip : prog[k].op # "block")
              => LoopWrote = TextOf(LoopTexts)
           /\ (ChosenArm # 0
               /\ \A k \in ArmBody(ChosenArm) : prog[k].op \in {"fprint", "append"})
              => LoopTexts = SelectSeq([k \in 1..(ip - 1) |-> k],
                                       LAMBDA k : /\ k \in ArmBody(ChosenArm)
                                                  /\ prog[k].op = "fprint")

(***************************************************************************)
(* Wrappers the emission supports.                                         *)
(***************************************************************************)

\* The wrapper nodes of the tree.
Wrappers == { n \in 1..Len(heap) : heap[n].kind = "func" }

\* C32: every wrapper node the parser makes is named where or set, so the
\* emission of a tree read without error never reaches the panic: the call
\* never ends in it, and once the blocks are closed at the end of the
\* input the code of every root node is written, with a wrapper tail for
\* each wrapper.
C32_EmissionCompletes ==
    /\ \A n \in Wrappers : heap[n].str \in {"where", "set"}
    /\ pc # "panic"
    /\ (pc = "run" \/ Finished)
       => /\ Len(codes) = Len(root)
          /\ \A k \in 1..Len(prog) : prog[k].op # "panic"
          /\ Cardinality({ k \in 1..Len(prog) : prog[k].op = "fprintc" })
             = Cardinality(Wrappers)

\* C32 witness: the code of a tree holding a where wrapper and a set
\* wrapper has been written.
C32_Witness ==
    /\ pc = "run" /\ ip = 1
    /\ \E a, b \in Wrappers : heap[a].str = "where" /\ heap[b].str = "set"
    /\ \E k \in 1..Len(prog) : prog[k].op = "ifand"
    /\ \E k \in 1..Len(prog) : prog[k].op = "ifcomma"

(***************************************************************************)
(* Placeholder forms.                                                      *)
(***************************************************************************)

\* Length of the longest placeholder form that starts at position k: the
\* sigils and the whole identifier after them; 0 when none starts there.
LongestForm(s, k) ==
    IF Sub(s, k, 2) = "@@" /\ IdentRun(s, k + 2) >= 1 THEN 2 + IdentRun(s, k + 2)
    ELSE IF Ch(s, k) = "@" /\ IdentRun(s, k + 1) >= 1 THEN 1 + IdentRun(s, k + 1)
    ELSE 0

\* The literal and the binds of a span whose placeholders are each taken in
\* their longest form, left to right.
RECURSIVE ByLongestForm(_, _)
ByLongestForm(s, k) ==
    LET hits == { j \in k..Len(s) : LongestForm(s, j) > 0 }
    IN  IF hits = {} THEN [text |-> From(s, k), params |-> <<>>]
        ELSE LET m == CHOOSE j \in hits : \A h \in hits : j <= h
                 n == LongestForm(s, m)
                 r == ByLongestForm(s, m + n)
             IN  [text |-> SubSeq(s, k, m - 1) \o "?" \o r.text,
                  params |-> <<BindExpr(SubSeq(s, m, m + n - 1))>> \o r.params]

\* C33: for a span without backslash or quote, the emitted literal and
\* binds are those of the span's placeholders taken in their longest form:
\* the sentinel for exactly @@table, one dynamic expression on the whole
\* identifier for any other @@identifier, the plain value for @identifier,
\* one marker and one bind each, left to right.
C33_LongestPlaceholderForm ==
    pc = "run"
    => \A k \in TextStmts :
         LET txt == TrimSpace(heap[NodeOfStmt(k)].str)
         IN  (~Contains(txt, "\\") /\ ~Contains(txt, "\""))
             => /\ LiteralOf(k) = ByLongestForm(txt, 1).text
                /\ BindsOf(k) = ByLongestForm(txt, 1).params

(***************************************************************************)
(* Word boundaries of the trailing conjunction.                            *)
(***************************************************************************)

\* C34: a where wrapper whose body is not empty and does not end in AND or
\* OR as a token of its own (alone, or after whitespace) writes the body
\* unchanged, after the keyword and before one space.
C34_TrimsOnlyWholeTokens ==
    (/\ AtWrapperEnd /\ WrapperKw = "WHERE "
     /\ WrapperBody # ""
     /\ ~EndsInToken(WrapperBody, "AND") /\ ~EndsInToken(WrapperBody, "OR"))
    => HasSuffix(WrapperWrote, "WHERE " \o WrapperBody \o " ")

(***************************************************************************)
(* Termination of the scan.                                                *)
(***************************************************************************)

\* RenderSQLTemplate has returned: an error, or the code.
HasReturned == pc \in {"run", "done"}

\* One pass of the inner loop: the line ends and the next one, if any, is
\* taken whole; or an error is returned on the spot; or the rest of the
\* line is a proper suffix of what it was, shorter by the text before the
\* directive, the braces "{{" and "}}" and what stands between them.
ScanPass ==
    \/ /\ start = -1
       /\ i' = i + 1 /\ i' <= Len(lines)
       /\ pc' = (IF i' < Len(lines) THEN "scan" ELSE "eof")
    \/ /\ start >= 0
       /\ pc' = "done" /\ err' # "" /\ codes' = <<>>
       /\ i' = i /\ rest' = rest
    \/ /\ start >= 0
       /\ pc' = "scan" /\ i' = i /\ err' = ""
       /\ Len(rest') <= Len(rest) - start - 4
       /\ HasSuffix(rest, rest')

\* C35: every pass of the scanning loop ends the line, returns an error or
\* consumes at least a "{{"; after an error no further pass is made; and
\* on every template the function returns.
C35_ScanTerminates ==
    /\ [][ /\ pc = "scan" => ScanPass
           /\ pc # "done" ]_vars
    /\ <>HasReturned

\* C35 witness: the function has returned the code of a template of
\* several lines, directives on at least three of them, every line
\* scanned.
C35_Witness ==
    /\ pc = "run" /\ err = ""
    /\ i = Len(lines) /\ Len(lines) >= 3
    /\ Cardinality({ k \in 1..Len(lines) : Contains(lines[k], "{{") }) >= 3

(***************************************************************************)
(* Markers and parameters at the end of a run.                             *)
(***************************************************************************)

\* C36: for a template without `?`, when the emitted procedure has
\* finished, the SQL text holds as many `?` as params has entries, whatever
\* the branch outcomes and loop counts were.
C36_MarkersEqualParams ==
    (Finished /\ ~Contains(tmpl, "?"))
    => Count(sb, "?") = Len(params)

(***************************************************************************)
(* Separation of fragments.                                                *)
(***************************************************************************)

\* The content of the builder a target name denotes where the current
\* statement stands.
Builder(target) == IF target = "sb" THEN sb ELSE Top(tmps)

\* Text appended to b does not touch what b holds: b is empty or ends in
\* whitespace.
Separated(b) == b = "" \/ IsSpace(Ch(b, Len(b)))

\* C37: every builder, sb and the tmp of every open wrapper, is at all
\* times empty or ended by whitespace, so whatever is written next is
\* separated from what was written before; a text statement appends its
\* literal, which is not empty, and one space; a wrapper appends its
\* body, which is the beginning of what its tmp collected (fragments
\* separated as they were written there), and one space.
C37_FragmentsSeparated ==
    [][ /\ Separated(sb') /\ \A k \in 1..Len(tmps') : Separated(tmps'[k])
        /\ (Running /\ cur.op = "fprint")
           => LET t == cur.target
                  b == Builder(t)
                  l == Unquote(cur.lit)
              IN  /\ Separated(b)
                  /\ l # "" /\ ~IsSpace(Ch(l, 1)) /\ ~IsSpace(Ch(l, Len(l)))
                  /\ (IF t = "sb" THEN sb' ELSE Top(tmps')) = b \o l \o " "
        /\ (Running /\ cur.op = "fprintc")
           => LET t == cur.target
                  b == Builder(t)
              IN  /\ Separated(b)
                  /\ HasPrefix(TrimSpace(Top(tmps)), Top(cs))
                  /\ (IF t = "sb" THEN sb' ELSE Top(tmps')) = b \o Top(cs) \o " "
      ]_vars

\* C37 witness: inside a where wrapper that follows text at the root, a
\* text statement is about to write after another fragment, read from an
\* earlier line, has been written to the same tmp.
C37_Witness ==
    /\ Running /\ cur.op = "fprint" /\ cur.target = "tmp"
    /\ tmpl = FilterWithTime
    /\ Top(tmps) = "created_at > ? "
    /\ sb = "SELECT * FROM ? "

====
